---- MODULE Spec2Model ----
(***************************************************************************)
(* Term algebra of qibo's Hamiltonian terms (src/src/qibo/core/terms.py):  *)
(* HamiltonianTerm, SymbolicTerm and TermGroup.                            *)
(*                                                                         *)
(* Numbers are Gaussian integers <<re, im>>.  An array value is a record   *)
(* [nd, rows]: nd = 0 is a Python/numpy scalar, nd = 2 a square matrix     *)
(* given by its rows, nd = -1 is Python's None.  Axes, qubits and the      *)
(* entries of `order` are 0-based as in the source; TLA+ sequences are     *)
(* indexed from 1.                                                         *)
(***************************************************************************)
EXTENDS Integers, Sequences, FiniteSets, TLC

VARIABLES
    heap,      \* the term objects, by allocation index
    gates,     \* the gates.Unitary objects the terms keep in _gate, by allocation index
    symdm,     \* the symbols (name, qubit) whose own gate has density_matrix set
    ret,       \* what the last operation returned or raised
    terms,     \* from_terms: the input list (each entry a term's target_qubits)
    orders,    \* from_terms: arity -> indices of the input terms of that arity
    groups,    \* from_terms: the list of TermGroup objects built so far
    pc,        \* from_terms: where the call stands
    todo,      \* from_terms: what the running loop has still to visit
    lastPlace, \* from_terms: what the last iteration of lines 211-219 did
    group,     \* one TermGroup object: members, target_qubits, _term
    lastCoefficients, \* the coefficients argument of the last to_term call
    parse      \* a constructor or from_factors call: its arguments and locals

termVars == <<heap, gates, symdm, ret>>
fromVars == <<terms, orders, groups, pc, todo, lastPlace>>
groupVars == <<group, lastCoefficients>>
parseVars == <<parse>>
vars == <<heap, gates, symdm, ret, terms, orders, groups, pc, todo, lastPlace, group,
          lastCoefficients, parse>>

----------------------------------------------------------------------------
(* Bounds of the model. *)

\* qubits are 0 .. NumQubits-1
NumQubits == 3

Qubits == 0 .. (NumQubits - 1)

----------------------------------------------------------------------------
(* Complex numbers and numpy arrays. *)

CAdd(a, b) == <<a[1] + b[1], a[2] + b[2]>>

CMul(a, b) == <<a[1] * b[1] - a[2] * b[2], a[1] * b[2] + a[2] * b[1]>>

CZero == <<0, 0>>

COne == <<1, 0>>

None == [nd |-> -1, rows |-> <<>>]

Scalar(c) == [nd |-> 0, rows |-> <<<<c>>>>]

Array(rows) == [nd |-> 2, rows |-> rows]

Dim(a) == Len(a.rows)

MaxNd(a, b) == IF a.nd >= b.nd THEN a.nd ELSE b.nd

RECURSIVE Pow2(_)
Pow2(n) == IF n <= 0 THEN 1 ELSE 2 * Pow2(n - 1)

\* K.eye(n)
Eye(n) == Array([r \in 1..n |-> [c \in 1..n |-> IF r = c THEN COne ELSE CZero]])

\* K.np.kron(a, b)
Kron(a, b) ==
    LET db == Dim(b)
        n == Dim(a) * db
    IN [nd |-> MaxNd(a, b),
        rows |-> [r \in 1..n |-> [c \in 1..n |->
                    CMul(a.rows[((r - 1) \div db) + 1][((c - 1) \div db) + 1],
                         b.rows[((r - 1) % db) + 1][((c - 1) % db) + 1])]]]

RECURSIVE DotSum(_, _, _, _, _)
DotSum(a, b, r, c, j) ==
    IF j = 0 THEN CZero
    ELSE CAdd(DotSum(a, b, r, c, j - 1), CMul(a.rows[r][j], b.rows[j][c]))

\* a @ b
MatMul(a, b) ==
    LET n == Dim(a)
    IN Array([r \in 1..n |-> [c \in 1..n |-> DotSum(a, b, r, c, n)]])

\* a + b (same shape, or a scalar broadcast against a 1x1 array)
Add(a, b) ==
    LET n == Dim(a)
    IN [nd |-> MaxNd(a, b),
        rows |-> [r \in 1..n |-> [c \in 1..n |-> CAdd(a.rows[r][c], b.rows[r][c])]]]

\* x * a for a complex scalar x
Scale(x, a) ==
    LET n == Dim(a)
    IN [nd |-> a.nd,
        rows |-> [r \in 1..n |-> [c \in 1..n |-> CMul(x, a.rows[r][c])]]]

\* bit of axis a (0-based, most significant first) of the k-bit index x
BitAt(x, a, k) == (x \div Pow2(k - 1 - a)) % 2

\* K.np.reshape(matrix, 2 * k * (2,)): the multi-index of entry (r, c), 0-based
TensorIndex(r, c, k) ==
    [a \in 0..(2 * k - 1) |-> IF a < k THEN BitAt(r, a, k) ELSE BitAt(c, a - k, k)]

RECURSIVE FlatIndex(_, _, _)
\* K.np.reshape(tensor, 2 * (2 ** k,)): the row (lo = 0) or column (lo = k) of a multi-index
FlatIndex(I, lo, k) ==
    IF k = 0 THEN 0
    ELSE 2 * FlatIndex(I, lo, k - 1) + I[lo + k - 1]

IsPermutation(order) ==
    /\ \A a \in 1..Len(order) : order[a] \in 0..(Len(order) - 1)
    /\ \A a, b \in 1..Len(order) : order[a] = order[b] => a = b

\* K.np.transpose(reshape(matrix, 2k * (2,)), order), reshaped back to 2^k x 2^k:
\* axis a of the result is axis order[a] of the input
TransposeAxes(m, order, k) ==
    LET n == Pow2(k)
        from == [a \in 0..(2 * k - 1) |-> (CHOOSE b \in 1..(2 * k) : order[b] = a) - 1]
        src(r, c) ==
            LET J == TensorIndex(r, c, k)
                I == [b \in 0..(2 * k - 1) |-> J[from[b]]]
            IN m.rows[FlatIndex(I, 0, k) + 1][FlatIndex(I, k, k) + 1]
    IN Array([r \in 1..n |-> [c \in 1..n |-> src(r - 1, c - 1)]])

----------------------------------------------------------------------------
(* Term objects. *)

\* keys of a dict / elements of a set of ints, in ascending order: sorted(...)
RECURSIVE Sorted(_)
Sorted(S) ==
    IF S = {} THEN <<>>
    ELSE LET lo == CHOOSE x \in S : \A y \in S : x <= y
         IN <<lo>> \o Sorted(S \ {lo})

Range(s) == {s[i] : i \in 1..Len(s)}

\* tuple.index(x), 0-based
TupleIndex(s, x) == (CHOOSE i \in 1..Len(s) : s[i] = x /\ \A j \in 1..(i - 1) : s[j] # x) - 1

NoTerm ==
    [cls |-> "", target_qubits |-> <<>>, _matrix |-> None, coefficient |-> CZero,
     factors |-> <<>>, matrix_map |-> <<>>, _gate |-> 0, hamiltonian |-> 0]

Raise(exc) == [exc |-> exc, term |-> NoTerm]

Return(t) == [exc |-> "", term |-> t]

\* a type test that turns None away as well
ValidMatrixTypeNotNone(matrix) == matrix.nd \in {0, 2}

\* isinstance(matrix, numeric_types) or isinstance(matrix, tensor_types) or matrix is None
ValidMatrixType(matrix) == matrix.nd \in {-1, 0, 2}

\* HamiltonianTerm(matrix, *q)
HamiltonianTermInit(matrix, q) ==
    IF ~ValidMatrixType(matrix) THEN Raise("TypeError")
    ELSE Return([cls |-> "HamiltonianTerm", target_qubits |-> q, _matrix |-> matrix,
                 coefficient |-> CZero, factors |-> <<>>, matrix_map |-> <<>>,
                 _gate |-> 0, hamiltonian |-> 0])

\* complex(x) succeeds on a scalar and on an array of one element
ComplexOk(x) == x.nd = 0 \/ (x.nd = 2 /\ Dim(x) = 1)

\* SymbolicTerm(coefficient, factors, matrix_map), coefficient a complex number
SymbolicTermInit(coefficient, factors, matrix_map) ==
    [cls |-> "SymbolicTerm", target_qubits |-> Sorted(DOMAIN matrix_map),
     _matrix |-> None, coefficient |-> coefficient, factors |-> factors,
     matrix_map |-> matrix_map, _gate |-> 0, hamiltonian |-> 0]

\* matrices_product(matrices): the left-to-right product of a non-empty list
RECURSIVE matrices_product(_)
matrices_product(matrices) ==
    IF Len(matrices) = 1 THEN matrices[1]
    ELSE MatMul(matrices_product(SubSeq(matrices, 1, Len(matrices) - 1)),
                matrices[Len(matrices)])

\* the loop of lines 163-165 over the qubits qs, starting from acc
RECURSIVE KronChain(_, _, _)
KronChain(acc, qs, matrix_map) ==
    IF qs = <<>> THEN acc
    ELSE KronChain(Kron(acc, matrices_product(matrix_map[Head(qs)])), Tail(qs), matrix_map)

\* what SymbolicTerm.matrix computes when nothing is cached
SymbolicMatrix(t) == KronChain(Scalar(t.coefficient), t.target_qubits, t.matrix_map)

\* the value of the property t.matrix
MatrixValue(t) ==
    IF t.cls = "SymbolicTerm" /\ t._matrix = None THEN SymbolicMatrix(t)
    ELSE t._matrix

\* the term after its property matrix was read (SymbolicTerm caches it)
Materialized(t) == [t EXCEPT !._matrix = MatrixValue(t)]

\* self.__class__(matrix, *q) as merge and HamiltonianTerm.__mul__ call it: on a
\* SymbolicTerm the positional arguments land on (coefficient, factors, matrix_map),
\* so more than two qubits are too many arguments, complex(matrix) must succeed,
\* and a second qubit is taken for a matrix_map, which has no keys()
ConstructLike(cls, matrix, q) ==
    IF cls = "HamiltonianTerm" THEN HamiltonianTermInit(matrix, q)
    ELSE IF Len(q) > 2 THEN Raise("TypeError")
    ELSE IF ~ComplexOk(matrix) THEN Raise("TypeError")
    ELSE IF Len(q) = 2 THEN Raise("AttributeError")
    ELSE Return(SymbolicTermInit(matrix.rows[1][1], q, <<>>))

\* SymbolicTerm.__mul__: the new term
SymbolicMul(t, x) ==
    [SymbolicTermInit(t.coefficient, t.factors, t.matrix_map)
        EXCEPT !._matrix = t._matrix,
               !._gate = t._gate,
               !.coefficient = CMul(t.coefficient, x)]

\* t * x and x * t (__mul__, __rmul__) for either class
mul(t, x) ==
    IF t.cls = "SymbolicTerm" THEN Return(SymbolicMul(t, x))
    ELSE IF t._matrix = None THEN Raise("TypeError")
    ELSE ConstructLike(t.cls, Scale(x, t._matrix), t.target_qubits)

\* lines 43-50 of merge: the loop over self.target_qubits
RECURSIVE OrderLoop(_, _, _, _)
OrderLoop(sq, tq, i, order) ==
    IF sq = <<>> THEN order
    ELSE IF Head(sq) \in Range(tq)
         THEN OrderLoop(Tail(sq), tq, i, Append(order, TupleIndex(tq, Head(sq))))
         ELSE OrderLoop(Tail(sq), tq, i + 1, Append(order, i))

\* an order that leaves every axis where it is
MergeOrderIdentity(sq, tq) == [a \in 1..(2 * Len(sq)) |-> a - 1]

\* lines 43-51 of merge
MergeOrder(sq, tq) ==
    LET order == OrderLoop(sq, tq, Len(tq), <<>>)
    IN order \o [a \in 1..Len(order) |-> order[a] + Len(order)]

\* self.merge(term), self and term given after their matrix was read
merge(self, term) ==
    LET k == Len(self.target_qubits)
        m == Len(term.target_qubits)
        order == MergeOrder(self.target_qubits, term.target_qubits)
    IN IF k < m THEN Raise("TypeError")
       ELSE IF ~IsPermutation(order) THEN Raise("ValueError")
       ELSE ConstructLike(self.cls,
                Add(MatrixValue(self),
                    TransposeAxes(Kron(MatrixValue(term), Eye(Pow2(k - m))), order, k)),
                self.target_qubits)

\* whether merge raises before line 54 reads self.matrix
MergeFailsEarly(self, term) ==
    \/ Len(self.target_qubits) < Len(term.target_qubits)
    \/ ~IsPermutation(MergeOrder(self.target_qubits, term.target_qubits))

\* the heap h with the object at place ref (if it is kept: ref # 0) now being t
Stored(h, ref, t) == IF ref # 0 THEN [h EXCEPT ![ref] = t] ELSE h

\* self after line 54 of self.merge(term)
ReadBySelf(self, term) == IF MergeFailsEarly(self, term) THEN self ELSE Materialized(self)

\* the heap after the reads of a merge, with what the merge returned or raised
Merged(h, res) == [heap |-> h, exc |-> res.exc, term |-> res.term]

\* self.merge(term), term's matrix having been read
MergeRead(h, self, selfRef, term, termRef) ==
    Merged(Stored(Stored(h, termRef, term), selfRef, ReadBySelf(self, term)),
           merge(self, term))

\* self.merge(term) with its effects on the objects: line 41 reads term.matrix
\* and line 54 self.matrix, which a SymbolicTerm caches.  selfRef and termRef
\* are the operands' places in the heap h, 0 for an object that is not kept.
MergeObjects(h, self, selfRef, term, termRef) ==
    MergeRead(h, IF selfRef # 0 /\ selfRef = termRef THEN Materialized(term) ELSE self,
              selfRef, Materialized(term), termRef)

----------------------------------------------------------------------------
(* The terms the specifications start from. *)

\* a 2^k x 2^k matrix whose entries are all different: base + 1, base + 2, ...
Generic(k, base) ==
    LET n == Pow2(k)
    IN Array([r \in 1..n |-> [c \in 1..n |-> <<base + (r - 1) * n + c, 0>>]])

\* the ordered tuples of distinct qubits
Tuples ==
    {q \in UNION {[1..n -> Qubits] : n \in 0..NumQubits} :
        \A i, j \in 1..Len(q) : q[i] = q[j] => i = j}

\* a symbol acting on one qubit, as from_factors keeps it in factors
Symbol(name, q, matrix) == [name |-> name, target_qubit |-> q, matrix |-> matrix]

HTerm(q, base) == HamiltonianTermInit(Generic(Len(q), base), q).term

\* the SymbolicTerm coefficient * G(q1) * G(q2) * ... over the qubits of S
STerm(coefficient, S, base) ==
    SymbolicTermInit(coefficient,
        [i \in 1..Cardinality(S) |->
            Symbol("G", Sorted(S)[i], Generic(1, base + 10 * Sorted(S)[i]))],
        [q \in S |-> <<Generic(1, base + 10 * q)>>])

\* what an operation returned: the operation, the exception it raised (if any), the
\* object returned (ref), the receiver (src), the scalar or flag passed (arg, half),
\* the array, new gate or new term returned (val) and the factor gates applied, in order
\* (applied)
MkRet(op, exc, ref, src, arg, half, val, applied) ==
    [op |-> op, exc |-> exc, ref |-> ref, src |-> src, arg |-> arg, half |-> half,
     val |-> val, applied |-> applied]

NoRet == MkRet("", "", 0, 0, CZero, FALSE, None, <<>>)

NoGroup == [members |-> <<>>, target_qubits |-> {}, _term |-> 0]

TermsIdle == heap = <<>> /\ gates = <<>> /\ symdm = {} /\ ret = NoRet

FromIdle ==
    /\ terms = <<>> /\ orders = <<>> /\ groups = <<>>
    /\ pc = "idle" /\ todo = <<>> /\ lastPlace = <<>>

GroupIdle == group = NoGroup /\ lastCoefficients = <<>>

\* no constructor or from_factors call is under way
NoParse ==
    [call |-> "", matrix |-> None, q |-> <<>>, given |-> CZero, coefficient |-> CZero,
     one |-> FALSE, factors |-> <<>>, symbol_map |-> <<>>, pos |-> 0, _factors |-> <<>>,
     _matrix_map |-> <<>>, exc |-> "", pc |-> "idle"]

ParseIdle == parse = NoParse

----------------------------------------------------------------------------
(* self.merge(term) on two given terms: heap[1] is self, heap[2] is term.   *)
(* Before the merge the gate of either operand may be read (NextMerge, below *)
(* the gate property).                                                       *)

InitMerge ==
    /\ heap \in {<<a, b>> :
            a \in {HTerm(q, 100) : q \in Tuples}
                    \cup {STerm(<<2, 0>>, S, 100) : S \in SUBSET Qubits},
            b \in {HTerm(q, 0) : q \in Tuples}
                    \cup {STerm(<<3, 0>>, S, 0) : S \in SUBSET Qubits}}
    /\ gates = <<>>
    /\ symdm = {}
    /\ ret = NoRet
    /\ FromIdle
    /\ GroupIdle
    /\ ParseIdle

\* the merged term res is allocated and returned, or the exception goes on
MergeReturn(a, res) ==
    /\ heap' = IF res.exc = "" THEN Append(res.heap, res.term) ELSE res.heap
    /\ ret' = MkRet("merge", res.exc, IF res.exc = "" THEN Len(res.heap) + 1 ELSE 0,
                    a, CZero, FALSE, None, <<>>)
    /\ UNCHANGED <<gates, symdm>>

\* heap[a].merge(heap[b])
Merge(a, b) == MergeReturn(a, MergeObjects(heap, heap[a], a, heap[b], b))

MergeStep ==
    /\ ret.op # "merge"
    /\ Merge(1, 2)
    /\ UNCHANGED <<fromVars, groupVars, parseVars>>

----------------------------------------------------------------------------
(* Claims about merge. *)

\* row (or column) index over the qubits bq read off the index x over the qubits aq
RECURSIVE SubIndex(_, _, _, _)
SubIndex(x, aq, bq, m) ==
    IF m = 0 THEN 0
    ELSE 2 * SubIndex(x, aq, bq, m - 1) + BitAt(x, TupleIndex(aq, bq[m]), Len(aq))

\* the operator b on the qubits bq, identity on the other qubits of aq, with
\* tensor axis i carrying qubit aq[i]
Embed(b, bq, aq) ==
    LET k == Len(aq)
        n == Pow2(k)
        same(r, c) == \A a \in 0..(k - 1) :
                        aq[a + 1] \notin Range(bq) => BitAt(r, a, k) = BitAt(c, a, k)
    IN Array([r \in 1..n |-> [c \in 1..n |->
            IF same(r - 1, c - 1)
            THEN b.rows[SubIndex(r - 1, aq, bq, Len(bq)) + 1][SubIndex(c - 1, aq, bq, Len(bq)) + 1]
            ELSE CZero]])

MergeDone == ret.op = "merge"

MergePre == Range(heap[2].target_qubits) \subseteq Range(heap[1].target_qubits)

\* C1: for every term A and every term B whose qubits are a subset of A's,
\* A.merge(B) returns a term whose matrix is A.matrix + E, E being B's operator
\* tensored with identity and laid out along A.target_qubits; result axis i
\* takes the axis of kron(B.matrix, I) that carries qubit A.target_qubits[i].
C1_MergeEmbeds ==
    (MergeDone /\ MergePre) =>
        /\ ret.exc = ""
        /\ MatrixValue(heap[ret.ref]).rows
            = Add(MatrixValue(heap[1]),
                  Embed(MatrixValue(heap[2]), heap[2].target_qubits,
                        heap[1].target_qubits)).rows
        /\ \A i \in 1..Len(heap[1].target_qubits) :
            IF heap[1].target_qubits[i] \in Range(heap[2].target_qubits)
            THEN heap[2].target_qubits[
                    MergeOrder(heap[1].target_qubits, heap[2].target_qubits)[i] + 1]
                    = heap[1].target_qubits[i]
            ELSE MergeOrder(heap[1].target_qubits, heap[2].target_qubits)[i]
                    >= Len(heap[2].target_qubits)

\* The same for the receivers on which merge can construct its result, a
\* HamiltonianTerm or a SymbolicTerm without qubits: the merge returns, and what
\* it returns is A.matrix + E.
ConstructibleReceiverMergeEmbeds ==
    (MergeDone /\ MergePre
        /\ (heap[1].cls = "HamiltonianTerm" \/ heap[1].target_qubits = <<>>)) =>
        /\ ret.exc = ""
        /\ LET aq == heap[1].target_qubits
            bq == heap[2].target_qubits
            order == MergeOrder(aq, bq)
           IN /\ MatrixValue(heap[ret.ref]).rows
                   = Add(MatrixValue(heap[1]), Embed(MatrixValue(heap[2]), bq, aq)).rows
              /\ \A i \in 1..Len(aq) :
                   IF aq[i] \in Range(bq) THEN bq[order[i] + 1] = aq[i]
                   ELSE order[i] >= Len(bq)

\* C1 witness: a merge into three qubits of a term on two of them, which needs
\* a permutation of the axes that is not the identity.
C1_Witness ==
    /\ MergeDone /\ ret.exc = ""
    /\ heap[1].target_qubits = <<2, 0, 1>>
    /\ heap[2].target_qubits = <<1, 2>>

\* C2: merge on a SymbolicTerm receiver returns a term over the receiver's
\* target_qubits whose matrix is receiver.matrix + embedded.
C2_SymbolicReceiver ==
    (MergeDone /\ MergePre /\ heap[1].cls = "SymbolicTerm") =>
        /\ ret.exc = ""
        /\ heap[ret.ref].target_qubits = heap[1].target_qubits
        /\ MatrixValue(heap[ret.ref]).rows
            = Add(MatrixValue(heap[1]),
                  Embed(MatrixValue(heap[2]), heap[2].target_qubits,
                        heap[1].target_qubits)).rows

\* C18: merge does not test its precondition, and yet it returns no term when
\* other's qubits are not a subset of self's: with more qubits in other than in
\* self the identity K.eye(2 ** (len(self) - len(term))) cannot be built
\* (TypeError), otherwise the computed order names an axis the tensor does not
\* have and the transpose refuses it (ValueError).
C18_MergeRaisesOutsidePrecondition ==
    (MergeDone /\ ~MergePre) =>
        /\ ret.ref = 0 /\ Len(heap) = 2
        /\ IF Len(heap[2].target_qubits) > Len(heap[1].target_qubits)
           THEN ret.exc = "TypeError"
           ELSE /\ ret.exc = "ValueError"
                /\ \E a \in 1..(2 * Len(heap[1].target_qubits)) :
                        MergeOrder(heap[1].target_qubits, heap[2].target_qubits)[a]
                            >= 2 * Len(heap[1].target_qubits)

\* C18 witness: a term on (2, 0) was merged into a term on (0, 1) and the merge
\* raised.
C18_Witness ==
    /\ MergeDone /\ ret.exc = "ValueError"
    /\ heap[1].cls = "HamiltonianTerm"
    /\ heap[1].target_qubits = <<0, 1>>
    /\ heap[2].target_qubits = <<2, 0>>

\* C18 as stated: outside the precondition merge still returns a term.
C18_SilentResult == (MergeDone /\ ~MergePre) => (ret.exc = "" /\ ret.ref # 0)

\* what a term shows of itself: class, qubits, matrix, cached gate, owner, and
\* for a SymbolicTerm coefficient, factors and matrix_map
Observed(t) ==
    [cls |-> t.cls, target_qubits |-> t.target_qubits, matrix |-> MatrixValue(t),
     gate |-> t._gate, hamiltonian |-> t.hamiltonian, coefficient |-> t.coefficient,
     factors |-> t.factors, matrix_map |-> t.matrix_map]

\* C26: A.merge(B), B's qubits being among A's, returns a new term and changes
\* neither operand: matrix, target_qubits, cached gate and hamiltonian of A and
\* of B are what they were, and the result is a new object whose target_qubits
\* is A's tuple, in A's order.
C26_MergeLeavesOperands ==
    [][(ret'.op = "merge" /\ MergePre) =>
            /\ \A i \in 1..2 : Observed(heap'[i]) = Observed(heap[i])
            /\ gates' = gates
            /\ ret'.exc = ""
            /\ ret'.ref = 3 /\ Len(heap') = 3
            /\ heap'[3].target_qubits = heap[1].target_qubits]_vars

\* No merge, returning or raising, inside or outside its precondition, changes an
\* operand or a gate; and on a receiver on which merge can construct its result
\* the merge returns a new object on A's tuple.
MergeFrameAndConstructibleResult ==
    [][ret'.op = "merge" =>
            /\ \A i \in 1..2 : Observed(heap'[i]) = Observed(heap[i])
            /\ gates' = gates
            /\ ret'.exc = "" =>
                /\ ret'.ref = 3 /\ Len(heap') = 3
                /\ heap'[3].target_qubits = heap[1].target_qubits
                /\ heap'[3]._gate = 0
            /\ (MergePre /\ (heap[1].cls = "HamiltonianTerm" \/ heap[1].target_qubits = <<>>))
                    => ret'.exc = ""]_vars

\* C26 witness: a SymbolicTerm on (0, 2) whose gate was read before was merged
\* into a term on (2, 0) whose gate was read as well; the merge returned a term
\* on (2, 0).
C26_Witness ==
    /\ MergeDone /\ ret.exc = ""
    /\ heap[1].target_qubits = <<2, 0>>
    /\ heap[1]._gate # 0
    /\ heap[2].cls = "SymbolicTerm"
    /\ heap[2].target_qubits = <<0, 2>>
    /\ heap[2]._gate # 0
    /\ heap[3].target_qubits = <<2, 0>>

----------------------------------------------------------------------------
(* One term and the terms scaled from it: matrix, gate, __mul__, __call__. *)

\* the most term objects a run allocates
MaxHeap == 2

PauliX == Array(<<<<CZero, COne>>, <<COne, CZero>>>>)

PauliY == Array(<<<<CZero, <<0, -1>>>>, <<<<0, 1>>, CZero>>>>)

PauliZ == Array(<<<<COne, CZero>>, <<CZero, <<-1, 0>>>>>>)

X(q) == Symbol("X", q, PauliX)

Y(q) == Symbol("Y", q, PauliY)

Z(q) == Symbol("Z", q, PauliZ)

\* the matrices of the factors acting on qubit q, in the order of the factors
RECURSIVE MatricesOn(_, _)
MatricesOn(factors, q) ==
    IF factors = <<>> THEN <<>>
    ELSE (IF Head(factors).target_qubit = q THEN <<Head(factors).matrix>> ELSE <<>>)
            \o MatricesOn(Tail(factors), q)

\* the matrix_map from_factors builds for a product of tensor-valued symbols
FactorsMap(factors) ==
    [q \in {factors[i].target_qubit : i \in 1..Len(factors)} |-> MatricesOn(factors, q)]

\* the products the symbolic terms of this specification are built from
FactorLists ==
    {<<>>, <<X(0)>>, <<X(0), Z(0)>>, <<Z(1), X(0)>>, <<X(0), Z(1), Y(0)>>}

Coefficients == {<<1, 0>>, <<0, 2>>}

MulScalars == {<<2, 0>>, <<0, 1>>}

InitSym ==
    /\ heap \in {<<t>> :
            t \in {HTerm(q, 0) : q \in {<<>>, <<0>>, <<1, 0>>}}
                    \cup {SymbolicTermInit(c, f, FactorsMap(f)) :
                            c \in Coefficients, f \in FactorLists}}
    /\ gates = <<>>
    /\ symdm = {}
    /\ ret = NoRet
    /\ FromIdle
    /\ GroupIdle
    /\ ParseIdle

\* gates.Unitary(matrix, *q)
Unitary(matrix, q) == [matrix |-> matrix, target_qubits |-> q, density_matrix |-> FALSE]

\* a gate property that constructs the gate at every read
GateAlwaysMissing(t) == TRUE

\* whether reading t.gate has to construct the gate (line 25)
GateMissing(t) == t._gate = 0

\* the property heap[i].gate: the heap and the gates after the read
GateHeap(i) ==
    IF GateMissing(heap[i])
    THEN [heap EXCEPT ![i] = [Materialized(@) EXCEPT !._gate = Len(gates) + 1]]
    ELSE heap

GateList(i) ==
    IF GateMissing(heap[i])
    THEN Append(gates, Unitary(MatrixValue(heap[i]), heap[i].target_qubits))
    ELSE gates

\* the positions in target_qubits of the qubits whose list in matrix_map is empty
EmptyLists(t) == {k \in 1..Len(t.target_qubits) : t.matrix_map[t.target_qubits[k]] = <<>>}

\* whether the computation of lines 162-165 meets an empty list: matrices[0]
\* raises IndexError
MatrixFails(t) == t.cls = "SymbolicTerm" /\ t._matrix = None /\ EmptyLists(t) # {}

\* what lines 162-165 have left in self._matrix when matrices[0] raises: the
\* product over the qubits before the first one with an empty list
PartialMatrix(t) ==
    KronChain(Scalar(t.coefficient),
              SubSeq(t.target_qubits, 1,
                     (CHOOSE k \in EmptyLists(t) : \A j \in EmptyLists(t) : k <= j) - 1),
              t.matrix_map)

\* reading heap[i].matrix
MatrixRead(i) ==
    IF MatrixFails(heap[i])
    THEN /\ heap' = [heap EXCEPT ![i]._matrix = PartialMatrix(heap[i])]
         /\ ret' = MkRet("matrix", "IndexError", 0, i, CZero, FALSE, None, <<>>)
         /\ UNCHANGED <<gates, symdm>>
    ELSE /\ heap' = [heap EXCEPT ![i] = Materialized(@)]
         /\ ret' = MkRet("matrix", "", 0, i, CZero, FALSE, MatrixValue(heap[i]), <<>>)
         /\ UNCHANGED <<gates, symdm>>

\* reading heap[i].gate; the read of self.matrix at line 26 may raise
GateRead(i) ==
    IF GateMissing(heap[i]) /\ MatrixFails(heap[i])
    THEN /\ heap' = [heap EXCEPT ![i]._matrix = PartialMatrix(heap[i])]
         /\ ret' = MkRet("gate", "IndexError", 0, i, CZero, FALSE, None, <<>>)
         /\ UNCHANGED <<gates, symdm>>
    ELSE /\ heap' = GateHeap(i)
         /\ gates' = GateList(i)
         /\ ret' = MkRet("gate", "", GateHeap(i)[i]._gate, i, CZero, FALSE, None, <<>>)
         /\ UNCHANGED symdm

\* the time steps exp and expgate are called with
TimeSteps == {2}

\* K.qnp.expm(a): the matrix exponential of a, an array kept as its logarithm
expm(a) == [nd |-> 2, log |-> a.rows]

\* what -1j * dt * matrix followed by expm can do: None cannot be multiplied
\* (TypeError); a scalar is turned away as not square (ValueError) or taken for
\* a 1x1 matrix, depending on the release of the exponential routine
ExpmRaises(matrix) ==
    IF matrix = None THEN {"TypeError"}
    ELSE IF matrix.nd = 0 THEN {"ValueError", ""}
    ELSE {""}

\* self.exp(dt) on heap[i]: the heap after the read of self.matrix, the
\* exception raised (if any) and the array returned
ExpOutcomes(i, dt) ==
    IF MatrixFails(heap[i])
    THEN {[heap |-> [heap EXCEPT ![i]._matrix = PartialMatrix(heap[i])],
           exc |-> "IndexError", val |-> None]}
    ELSE {[heap |-> [heap EXCEPT ![i] = Materialized(@)],
           exc |-> exc,
           val |-> IF exc = "" THEN expm(Scale(<<0, -dt>>, MatrixValue(heap[i]))) ELSE None] :
            exc \in ExpmRaises(MatrixValue(heap[i]))}

\* heap[i].exp(dt)
Exp(i, dt) ==
    \E out \in ExpOutcomes(i, dt) :
        /\ heap' = out.heap
        /\ ret' = MkRet("exp", out.exc, 0, i, <<dt, 0>>, FALSE, out.val, <<>>)
        /\ UNCHANGED <<gates, symdm>>

\* heap[i].expgate(dt): the gate is a new object at every call, handed to the
\* caller and kept nowhere in the term (val is the gate itself)
ExpGate(i, dt) ==
    \E out \in ExpOutcomes(i, dt) :
        /\ heap' = out.heap
        /\ ret' = MkRet("expgate", out.exc, 0, i, <<dt, 0>>, FALSE,
                        IF out.exc = "" THEN Unitary(out.val, heap[i].target_qubits)
                        ELSE None, <<>>)
        /\ UNCHANGED <<gates, symdm>>

\* a multiplication that scales the receiver itself and returns it
MulInPlace(i, x) ==
    LET res == mul(heap[i], x)
    IN /\ Len(heap) < MaxHeap
       /\ heap' = IF res.exc = "" THEN [heap EXCEPT ![i] = res.term] ELSE heap
       /\ ret' = MkRet("mul", res.exc, IF res.exc = "" THEN i ELSE 0,
                       i, x, FALSE, None, <<>>)
       /\ UNCHANGED <<gates, symdm>>

\* x * heap[i] and heap[i] * x
Mul(i, x) ==
    LET res == mul(heap[i], x)
    IN /\ Len(heap) < MaxHeap
       /\ heap' = IF res.exc = "" THEN Append(heap, res.term) ELSE heap
       /\ ret' = MkRet("mul", res.exc, IF res.exc = "" THEN Len(heap) + 1 ELSE 0,
                       i, x, FALSE, None, <<>>)
       /\ UNCHANGED <<gates, symdm>>

\* the factors grouped by qubit, lowest qubit first
RECURSIVE ByQubit(_, _)
ByQubit(factors, q) ==
    IF q >= NumQubits THEN <<>>
    ELSE SelectSeq(factors, LAMBDA f : f.target_qubit = q) \o ByQubit(factors, q + 1)

\* line 182: the multiplication of the state by the coefficient
CoefficientCall == [name |-> "coefficient", target_qubit |-> -1, half |-> FALSE]

\* a call that applies the factor gates qubit by qubit
FactorCallsByQubit(factors, density_matrix) ==
    [j \in 1..Len(factors) |->
        [name |-> ByQubit(factors, 0)[j].name,
         target_qubit |-> ByQubit(factors, 0)[j].target_qubit,
         half |-> density_matrix]]

\* the factor gates SymbolicTerm.__call__ applies, in order
RECURSIVE FactorCalls(_, _)
FactorCalls(factors, density_matrix) ==
    IF factors = <<>> THEN <<>>
    ELSE <<[name |-> Head(factors).name, target_qubit |-> Head(factors).target_qubit,
            half |-> density_matrix]>> \o FactorCalls(Tail(factors), density_matrix)

\* a call that sets the flag of the term's gate to the argument it was given
CallSetsFlag(i, density_matrix) ==
    IF heap[i].cls = "SymbolicTerm"
    THEN /\ symdm' = IF density_matrix
                     THEN symdm \cup {<<heap[i].factors[j].name, heap[i].factors[j].target_qubit>> :
                                        j \in 1..Len(heap[i].factors)}
                     ELSE symdm \ {<<heap[i].factors[j].name, heap[i].factors[j].target_qubit>> :
                                        j \in 1..Len(heap[i].factors)}
         /\ ret' = MkRet("call", "", 0, i, heap[i].coefficient, density_matrix, None,
                         FactorCalls(heap[i].factors, density_matrix) \o <<CoefficientCall>>)
         /\ UNCHANGED <<heap, gates>>
    ELSE /\ heap' = GateHeap(i)
         /\ gates' = [GateList(i) EXCEPT ![GateHeap(i)[i]._gate].density_matrix = density_matrix]
         /\ ret' = MkRet("call", "", GateHeap(i)[i]._gate, i, CZero, density_matrix, None, <<>>)
         /\ UNCHANGED symdm

\* heap[i](state, density_matrix): for a SymbolicTerm the operations applied to
\* the state are listed in order, the factor gates and then the coefficient
Call(i, density_matrix) ==
    IF heap[i].cls = "SymbolicTerm"
    THEN /\ symdm' = IF density_matrix
                     THEN symdm \cup {<<heap[i].factors[j].name, heap[i].factors[j].target_qubit>> :
                                        j \in 1..Len(heap[i].factors)}
                     ELSE symdm
         /\ ret' = MkRet("call", "", 0, i, heap[i].coefficient, density_matrix, None,
                         FactorCalls(heap[i].factors, density_matrix) \o <<CoefficientCall>>)
         /\ UNCHANGED <<heap, gates>>
    ELSE /\ heap' = GateHeap(i)
         /\ gates' = IF density_matrix
                     THEN [GateList(i) EXCEPT ![GateHeap(i)[i]._gate].density_matrix = TRUE]
                     ELSE GateList(i)
         /\ ret' = MkRet("call", "", GateHeap(i)[i]._gate, i, CZero, density_matrix, None, <<>>)
         /\ UNCHANGED symdm

MatrixReadStep == \E i \in 1..Len(heap) : MatrixRead(i) /\ UNCHANGED <<fromVars, groupVars, parseVars>>

GateReadStep == \E i \in 1..Len(heap) : GateRead(i) /\ UNCHANGED <<fromVars, groupVars, parseVars>>

MulStep ==
    \E i \in 1..Len(heap) : \E x \in MulScalars :
        Mul(i, x) /\ UNCHANGED <<fromVars, groupVars, parseVars>>

CallStep ==
    \E i \in 1..Len(heap) : \E density_matrix \in BOOLEAN :
        Call(i, density_matrix) /\ UNCHANGED <<fromVars, groupVars, parseVars>>

\* the merge, or before it a read of an operand's gate
NextMerge == MergeStep \/ (ret.op # "merge" /\ GateReadStep)

SpecMerge == InitMerge /\ [][NextMerge]_vars

ExpStep ==
    \E i \in 1..Len(heap) : \E dt \in TimeSteps :
        Exp(i, dt) /\ UNCHANGED <<fromVars, groupVars, parseVars>>

ExpGateStep ==
    \E i \in 1..Len(heap) : \E dt \in TimeSteps :
        ExpGate(i, dt) /\ UNCHANGED <<fromVars, groupVars, parseVars>>

NextSym == MatrixReadStep \/ GateReadStep \/ MulStep \/ CallStep \/ ExpStep \/ ExpGateStep

SpecSym == InitSym /\ [][NextSym]_vars

----------------------------------------------------------------------------
(* Claims about matrix, gate and scalar multiplication. *)

\* C3: (c * t).matrix == c * t.matrix for every term t and scalar c, whether or
\* not t.matrix had been read before the multiplication.
C3_ScaleLinear ==
    (ret.op = "mul" /\ ret.exc = "") =>
        MatrixValue(heap[ret.ref]) = Scale(ret.arg, MatrixValue(heap[ret.src]))

\* C9: once a term holds a gate, every later read of term.gate returns that same
\* gate object and constructs no new one, whatever reads and calls come between.
C9_GateBuiltOnce ==
    [][\A i \in 1..Len(heap) :
        heap[i]._gate # 0 =>
            /\ heap'[i]._gate = heap[i]._gate
            /\ (ret'.src = i /\ (ret'.op = "gate" \/
                                 (ret'.op = "call" /\ heap[i].cls = "HamiltonianTerm"))) =>
                    (ret'.ref = heap[i]._gate /\ Len(gates') = Len(gates))]_vars

\* C9 witness: a term whose gate was built is read again, after a call on it.
C9_Witness ==
    /\ ret.op = "gate"
    /\ Len(gates) = 1
    /\ gates[1].density_matrix
    /\ heap[ret.src]._gate = 1

\* entry (r, c) of the product of the 2x2 matrices ms, taken left to right
RECURSIVE ChainEntry(_, _, _)
ChainEntry(ms, r, c) ==
    IF Len(ms) = 1 THEN ms[1].rows[r][c]
    ELSE CAdd(CMul(ms[1].rows[r][1], ChainEntry(Tail(ms), 1, c)),
              CMul(ms[1].rows[r][2], ChainEntry(Tail(ms), 2, c)))

RECURSIVE QubitProduct(_, _, _, _, _)
\* product over the first n qubits of qs of the entries their bits select
QubitProduct(t, qs, r, c, n) ==
    IF n = 0 THEN t.coefficient
    ELSE CMul(QubitProduct(t, qs, r, c, n - 1),
              ChainEntry(t.matrix_map[qs[n]],
                         BitAt(r, n - 1, Len(qs)) + 1, BitAt(c, n - 1, Len(qs)) + 1))

\* coefficient times the Kronecker product over the qubits in ascending order of
\* the per-qubit left-to-right products; the bare coefficient on empty support
ExpectedMatrix(t) ==
    LET qs == Sorted(DOMAIN t.matrix_map)
        n == Pow2(Len(qs))
    IN IF qs = <<>> THEN Scalar(t.coefficient)
       ELSE Array([r \in 1..n |-> [c \in 1..n |-> QubitProduct(t, qs, r - 1, c - 1, Len(qs))]])

\* C10: the value SymbolicTerm.matrix returns is coefficient times the kron, in
\* ascending qubit order, of the per-qubit left-to-right products.
C10_MatrixIsKronChain ==
    (ret.op = "matrix" /\ heap[ret.src].cls = "SymbolicTerm") =>
        ret.val = ExpectedMatrix(heap[ret.src])

\* The same for a term whose matrix is computed by the read itself or whose
\* cache was filled by a read of its own.
FreshMatrixIsKronChain ==
    \A i \in 1..Len(heap) :
        (heap[i].cls = "SymbolicTerm" /\ heap[i]._matrix = None) =>
            SymbolicMatrix(heap[i]) = ExpectedMatrix(heap[i])

\* C14: x * term and term * x return a new object and leave the receiver as it
\* was (matrix, coefficient, target_qubits, cached gate, hamiltonian) and the
\* gates as they were; the result has the receiver's target_qubits.
C14_MulLeavesReceiver ==
    [][(ret'.op = "mul" /\ ret'.exc = "" /\ <<heap', ret'>> # <<heap, ret>>) =>
            /\ ret'.ref = Len(heap) + 1
            /\ Len(heap') = Len(heap) + 1
            /\ \A i \in 1..Len(heap) : heap'[i] = heap[i]
            /\ heap'[ret'.ref].target_qubits = heap[ret'.src].target_qubits
            /\ heap'[ret'.ref].cls = heap[ret'.src].cls
            /\ gates' = gates]_vars

\* C14 witness: a SymbolicTerm on two qubits whose matrix and gate are cached was
\* multiplied.
C14_Witness ==
    /\ ret.op = "mul" /\ ret.exc = ""
    /\ heap[ret.src].cls = "SymbolicTerm"
    /\ heap[ret.src]._gate # 0
    /\ heap[ret.src]._matrix # None
    /\ Len(heap[ret.src].target_qubits) = 2

\* C15: in every SymbolicTerm reached by matrix reads, gate reads and scalings,
\* a cached matrix is coefficient times the kron of the per-qubit products and a
\* cached gate wraps that same matrix.
C15_CachesFollowScaling ==
    \A i \in 1..Len(heap) :
        heap[i].cls = "SymbolicTerm" =>
            /\ heap[i]._matrix # None => heap[i]._matrix = ExpectedMatrix(heap[i])
            /\ heap[i]._gate # 0 => gates[heap[i]._gate].matrix = ExpectedMatrix(heap[i])

\* C21: SymbolicTerm.__call__ applies the gates of its factors one after the
\* other in the order of the factors list, each through the density-matrix half
\* call exactly when density_matrix is True, and multiplies by the coefficient
\* after the last of them.
C21_CallInFactorOrder ==
    (ret.op = "call" /\ heap[ret.src].cls = "SymbolicTerm") =>
        LET factors == heap[ret.src].factors
        IN /\ Len(ret.applied) = Len(factors) + 1
           /\ \A j \in 1..Len(factors) :
                /\ ret.applied[j].name = factors[j].name
                /\ ret.applied[j].target_qubit = factors[j].target_qubit
                /\ ret.applied[j].half = ret.half
           /\ ret.applied[Len(factors) + 1] = CoefficientCall
           /\ ret.arg = heap[ret.src].coefficient

\* C21 witness: the term of the product X(0) * Z(1) * Y(0), scaled, was called
\* with density_matrix=True.
C21_Witness ==
    /\ ret.op = "call" /\ ret.half
    /\ heap[ret.src].cls = "SymbolicTerm"
    /\ ret.src = 2
    /\ Len(ret.applied) = 4
    /\ ret.applied[2].target_qubit = 1
    /\ ret.applied[3].target_qubit = 0

\* C30: a call with density_matrix=True sets the flag of the gate it goes
\* through -- the cached gate of a HamiltonianTerm, the own gate of each factor
\* of a SymbolicTerm, whose cached gate is not touched -- and no read, call or
\* scaling ever clears a flag.
C30_FlagNeverCleared ==
    /\ []((ret.op = "call" /\ ret.half) =>
            IF heap[ret.src].cls = "HamiltonianTerm"
            THEN /\ heap[ret.src]._gate = ret.ref
                 /\ gates[ret.ref].density_matrix
            ELSE \A j \in 1..Len(heap[ret.src].factors) :
                    <<heap[ret.src].factors[j].name,
                      heap[ret.src].factors[j].target_qubit>> \in symdm)
    /\ [][/\ \A g \in 1..Len(gates) : gates[g].density_matrix => gates'[g].density_matrix
          /\ symdm \subseteq symdm'
          /\ (ret'.op = "call" /\ heap[ret'.src].cls = "SymbolicTerm") =>
                (gates' = gates /\ heap' = heap)]_vars

\* C30 witness: a HamiltonianTerm was called with density_matrix=True and then
\* with density_matrix=False, and the flag of its gate is still set.
C30_Witness ==
    /\ ret.op = "call" /\ ~ret.half
    /\ heap[ret.src].cls = "HamiltonianTerm"
    /\ gates[ret.ref].density_matrix

\* C30 as stated: a call with density_matrix=True sets the flag on the term's
\* cached gate.
C30_FlagOnCachedGate ==
    (ret.op = "call" /\ ret.half) =>
        /\ heap[ret.src]._gate # 0
        /\ gates[heap[ret.src]._gate].density_matrix

----------------------------------------------------------------------------
(* TermGroup and TermGroup.from_terms.  A member of a group is a reference to *)
(* a term object: in from_terms, the term's position in the input list.       *)

\* the longest input list of from_terms
MaxTerms == 3

\* TermGroup(term), term given by its reference and its target_qubits
TermGroupInit(ref, q) == [members |-> <<ref>>, target_qubits |-> Range(q), _term |-> 0]

\* an append that keeps the cached merged term
appendKeepsTerm(g, ref, q) ==
    [members |-> Append(g.members, ref),
     target_qubits |-> g.target_qubits \cup Range(q),
     _term |-> g._term]

\* an append that turns away a term can_append refuses
appendChecked(g, ref, q) ==
    IF Range(q) \subseteq g.target_qubits
    THEN [members |-> Append(g.members, ref), target_qubits |-> g.target_qubits,
          _term |-> 0]
    ELSE g

\* an append that takes the new term's qubits for the group's support
appendForgetsSupport(g, ref, q) ==
    [members |-> Append(g.members, ref), target_qubits |-> Range(q), _term |-> 0]

\* group.append(term)
append(g, ref, q) ==
    [members |-> Append(g.members, ref),
     target_qubits |-> g.target_qubits \cup Range(q),
     _term |-> 0]

\* a can_append that accepts any term sharing a qubit with the group
can_appendOverlap(g, q) == Range(q) \cap g.target_qubits # {}

\* a can_append that refuses a term whose support is the whole support of the group
can_appendProper(g, q) == Range(q) \subseteq g.target_qubits /\ Range(q) # g.target_qubits

\* a can_append that refuses a term without qubits
can_appendNonEmpty(g, q) == q # <<>> /\ Range(q) \subseteq g.target_qubits

\* a can_append that refuses every term
can_appendNever(g, q) == FALSE

\* group.can_append(term)
can_append(g, q) == Range(q) \subseteq g.target_qubits

\* buckets that take a new term at the front
BucketedFront(ords, i, n) ==
    IF n \in DOMAIN ords THEN [ords EXCEPT ![n] = <<i>> \o @]
    ELSE [k \in (DOMAIN ords) \cup {n} |-> IF k = n THEN <<i>> ELSE ords[k]]

\* lines 204-207: the buckets after the term at position i was put in
Bucketed(ords, i, n) ==
    IF n \in DOMAIN ords THEN [ords EXCEPT ![n] = Append(@, i)]
    ELSE [k \in (DOMAIN ords) \cup {n} |-> IF k = n THEN <<i>> ELSE ords[k]]

RECURSIVE Concat(_, _)
Concat(ords, keys) ==
    IF keys = <<>> THEN <<>> ELSE ords[Head(keys)] \o Concat(ords, Tail(keys))

Reverse(s) == [i \in 1..Len(s) |-> s[Len(s) + 1 - i]]

\* the loops of lines 210-211 without the reversal: smallest arity first
PlaceOrderAscending(ords) == Concat(ords, Sorted(DOMAIN ords))

\* lines 210-211: the children in the order the two nested loops visit them
PlaceOrder(ords) == Concat(ords, Reverse(Sorted(DOMAIN ords)))

\* lines 213-217: the groups that accept the child, in list order
Accepting(gs, q) == {i \in 1..Len(gs) : can_append(gs[i], q)}

\* a scan that stops at the last group that accepts the child
LastFit(gs, q) ==
    IF {i \in 1..Len(gs) : Range(q) \subseteq gs[i].target_qubits} = {} THEN 0
    ELSE CHOOSE i \in {i \in 1..Len(gs) : Range(q) \subseteq gs[i].target_qubits} :
            \A j \in {j \in 1..Len(gs) : Range(q) \subseteq gs[j].target_qubits} : i >= j

\* the group the loop of lines 213-217 stops at (0: none, flag stays True)
FirstFit(gs, q) ==
    IF Accepting(gs, q) = {} THEN 0
    ELSE CHOOSE i \in Accepting(gs, q) : \A j \in Accepting(gs, q) : i <= j

\* the loop of lines 213-217 without its break: every accepting group gets the child
PlaceNoBreak(gs, ref, q) ==
    IF Accepting(gs, q) = {} THEN Append(gs, TermGroupInit(ref, q))
    ELSE [i \in 1..Len(gs) |-> IF i \in Accepting(gs, q) THEN append(gs[i], ref, q) ELSE gs[i]]

\* lines 212-219: the groups after one child was placed
Place(gs, ref, q) ==
    IF FirstFit(gs, q) = 0 THEN Append(gs, TermGroupInit(ref, q))
    ELSE [gs EXCEPT ![FirstFit(gs, q)] = append(@, ref, q)]

\* the supports a term of the input can have: the subsets of the qubits, as tuples
Supports == {Sorted(S) : S \in SUBSET Qubits}

InitFrom ==
    /\ terms \in UNION {[1..n -> Supports] : n \in 0..MaxTerms}
    /\ orders = <<>>
    /\ groups = <<>>
    /\ pc = "bucket"
    /\ todo = [i \in 1..Len(terms) |-> i]
    /\ lastPlace = <<>>
    /\ TermsIdle
    /\ GroupIdle
    /\ ParseIdle

\* one iteration of the loop of lines 203-207
BucketStep ==
    /\ pc = "bucket" /\ todo # <<>>
    /\ orders' = Bucketed(orders, Head(todo), Len(terms[Head(todo)]))
    /\ todo' = Tail(todo)
    /\ UNCHANGED <<terms, groups, pc, lastPlace, termVars, groupVars, parseVars>>

\* lines 209-210: the buckets are complete, the placing loops start
SortStep ==
    /\ pc = "bucket" /\ todo = <<>>
    /\ groups' = <<>>
    /\ todo' = PlaceOrder(orders)
    /\ pc' = "place"
    /\ UNCHANGED <<terms, orders, lastPlace, termVars, groupVars, parseVars>>

\* one iteration of the loop body of lines 212-219
PlaceStep ==
    /\ pc = "place" /\ todo # <<>>
    /\ groups' = Place(groups, Head(todo), terms[Head(todo)])
    /\ lastPlace' = <<Head(todo)>>
    /\ todo' = Tail(todo)
    /\ UNCHANGED <<terms, orders, pc, termVars, groupVars, parseVars>>

\* line 220
ReturnStep ==
    /\ pc = "place" /\ todo = <<>>
    /\ pc' = "done"
    /\ UNCHANGED <<terms, orders, groups, todo, lastPlace, termVars, groupVars, parseVars>>

NextFrom == BucketStep \/ SortStep \/ PlaceStep \/ ReturnStep

SpecFrom == InitFrom /\ [][NextFrom]_vars

----------------------------------------------------------------------------
(* Claims about from_terms. *)

\* the places (group, position) of the returned groups that hold input term i
PlacesOf(i) ==
    {p \in {<<g, k>> : g \in 1..Len(groups), k \in 1..MaxTerms} :
        p[2] <= Len(groups[p[1]].members) /\ groups[p[1]].members[p[2]] = i}

Support(i) == Range(terms[i])

\* C4: the groups from_terms returns hold every input term exactly once: none
\* is dropped, none is in two groups or twice in one.
C4_EveryTermOnce ==
    pc = "done" =>
        /\ \A i \in 1..Len(terms) : Cardinality(PlacesOf(i)) = 1
        /\ \A g \in 1..Len(groups) : \A k \in 1..Len(groups[g].members) :
                groups[g].members[k] \in 1..Len(terms)

\* C4 witness: a list with a repeated term and two incomparable supports, grouped.
C4_Witness ==
    /\ pc = "done"
    /\ Len(terms) = 3
    /\ terms[1] = terms[3]
    /\ Len(groups) = 2

\* C5: from_terms appends a term to a group only if the group's support just
\* before the append contains the term's qubits, so the append leaves the
\* group's target_qubits as they were.
C5_AppendInsideSupport ==
    [][\A g \in 1..Len(groups) :
        (pc = "place" /\ groups'[g].members # groups[g].members) =>
            /\ groups'[g].members = Append(groups[g].members, Head(todo))
            /\ Support(Head(todo)) \subseteq groups[g].target_qubits
            /\ groups'[g].target_qubits = groups[g].target_qubits]_vars

\* C5 witness: from_terms has just appended a term to an existing group.
C5_Witness ==
    /\ pc = "place"
    /\ lastPlace # <<>>
    /\ \E g \in 1..Len(groups) :
            /\ Len(groups[g].members) >= 2
            /\ groups[g].members[Len(groups[g].members)] = lastPlace[1]

\* C6: a term whose support is a proper subset of another input term's support
\* never seeds a group, whatever the order of the input.
C6_SubsetNeverSeeds ==
    \A g \in 1..Len(groups) : \A j \in 1..Len(terms) :
        ~(Support(groups[g].members[1]) \subseteq Support(j)
            /\ Support(groups[g].members[1]) # Support(j))

\* C6 witness: the 1-qubit term on (0,) given before the 2-qubit term on (0, 1)
\* ends in one group of size 2, seeded by the 2-qubit term.
C6_Witness ==
    /\ pc = "done"
    /\ terms = <<<<0>>, <<0, 1>>>>
    /\ Len(groups) = 1
    /\ groups[1].members = <<2, 1>>

\* the supports of the input that no other support of the input strictly contains
MaximalSupports ==
    {Support(i) : i \in {i \in 1..Len(terms) :
        \A j \in 1..Len(terms) :
            Support(i) \subseteq Support(j) => Support(i) = Support(j)}}

\* the partitions of the input, each part labelled by its first member, in which
\* every part has a member whose support contains the support of every member
Dominated ==
    {f \in [1..Len(terms) -> 1..Len(terms)] :
        /\ \A i \in 1..Len(terms) : f[i] <= i /\ f[f[i]] = f[i]
        /\ \A i \in 1..Len(terms) : \E d \in 1..Len(terms) :
            /\ f[d] = f[i]
            /\ \A j \in 1..Len(terms) : f[j] = f[i] => Support(j) \subseteq Support(d)}

Parts(f) == Cardinality({f[i] : i \in 1..Len(terms)})

\* C7: from_terms returns as many groups as there are distinct inclusion-maximal
\* supports in the input, which is the least number of parts of any partition
\* whose parts each have a member containing the support of the others.
C7_MinimumGroups ==
    pc = "done" =>
        /\ Len(groups) = Cardinality(MaximalSupports)
        /\ \A f \in Dominated : Len(groups) <= Parts(f)
        /\ \E f \in Dominated : Len(groups) = Parts(f)

\* C7 witness: three terms, two of them with the same maximal support, grouped
\* into two groups.
C7_Witness ==
    /\ pc = "done"
    /\ Len(terms) = 3
    /\ Cardinality(MaximalSupports) = 2
    /\ \E i, j \in 1..Len(terms) : i # j /\ Support(i) = Support(j) /\ Support(i) \in MaximalSupports

\* the groups whose support contains the qubits of input term i
Fitting(i) == {g \in 1..Len(groups) : Support(i) \subseteq groups[g].target_qubits}

\* C24: from_terms appends each term to the first group, in creation order, whose
\* support contains the term's qubits when the term is processed, later groups
\* that would accept it notwithstanding; it creates a new singleton group, at the
\* end of the list, exactly when no group accepts the term.
C24_FirstFit ==
    [][(pc = "place" /\ todo # <<>> /\ todo' # todo) =>
            IF Fitting(Head(todo)) = {}
            THEN /\ Len(groups') = Len(groups) + 1
                 /\ groups'[Len(groups')].members = <<Head(todo)>>
                 /\ groups'[Len(groups')].target_qubits = Support(Head(todo))
                 /\ \A g \in 1..Len(groups) : groups'[g] = groups[g]
            ELSE /\ Len(groups') = Len(groups)
                 /\ \A g \in 1..Len(groups) :
                        IF g \in Fitting(Head(todo)) /\ \A h \in Fitting(Head(todo)) : g <= h
                        THEN groups'[g].members = Append(groups[g].members, Head(todo))
                        ELSE groups'[g] = groups[g]]_vars

\* C24 witness: the term on (1,) went to the group seeded by (0, 1) although the
\* group seeded by (1, 2) accepts it too.
C24_Witness ==
    /\ pc = "done"
    /\ terms = <<<<0, 1>>, <<1, 2>>, <<1>>>>
    /\ groups[1].members = <<1, 3>>
    /\ groups[2].members = <<2>>

\* whether input term i is processed before input term j: larger arity first,
\* input order within one arity
Before(i, j) ==
    \/ Len(terms[i]) > Len(terms[j])
    \/ Len(terms[i]) = Len(terms[j]) /\ i < j

\* C25: from_terms processes the terms by decreasing arity and, within one
\* arity, in input order: the terms still to place are in that order and come
\* after every term placed, the members of every group are in that order, and
\* so are the seeds of the groups along the output list.
C25_ProcessingOrder ==
    pc \in {"place", "done"} =>
        /\ \A a, b \in 1..Len(todo) : a < b => Before(todo[a], todo[b])
        /\ \A g \in 1..Len(groups) :
            /\ \A a, b \in 1..Len(groups[g].members) :
                    a < b => Before(groups[g].members[a], groups[g].members[b])
            /\ \A a \in 1..Len(groups[g].members) : \A b \in 1..Len(todo) :
                    Before(groups[g].members[a], todo[b])
            /\ \A h \in 1..Len(groups) :
                    g < h => Before(groups[g].members[1], groups[h].members[1])

\* C25 witness: (0,), (0, 1), (1,) came out as one group with the 2-qubit term
\* first and the two 1-qubit terms in their input order.
C25_Witness ==
    /\ pc = "done"
    /\ terms = <<<<0>>, <<0, 1>>, <<1>>>>
    /\ Len(groups) = 1
    /\ groups[1].members = <<2, 1, 3>>

\* C27: a term without qubits is accepted by every group; when the input has a
\* term with qubits it ends in the first group, and a group with empty support
\* is returned only when no input term has qubits, and is then the only group.
C27_ScalarTermPlacement ==
    /\ \A g \in 1..Len(groups) : can_append(groups[g], <<>>)
    /\ pc = "done" =>
        /\ (\E j \in 1..Len(terms) : terms[j] # <<>>) =>
                \A i \in 1..Len(terms) :
                    terms[i] = <<>> => i \in Range(groups[1].members)
        /\ \A g \in 1..Len(groups) :
                groups[g].target_qubits = {} =>
                    (Len(groups) = 1 /\ \A i \in 1..Len(terms) : terms[i] = <<>>)

\* C27 witness: a scalar term given first, before terms on (0,) and on (1,), is
\* the second member of the first group.
C27_Witness ==
    /\ pc = "done"
    /\ terms = <<<<>>, <<0>>, <<1>>>>
    /\ Len(groups) = 2
    /\ groups[1].members = <<2, 1>>

\* C28: the supports of the groups of from_terms are pairwise incomparable: no
\* group's target_qubits is a subset of another's, equal supports included.
C28_SupportsAntichain ==
    \A g, h \in 1..Len(groups) :
        g # h => ~(groups[g].target_qubits \subseteq groups[h].target_qubits)

\* C28 witness: three groups on (0, 1), (1, 2) and (0, 2).
C28_Witness ==
    /\ pc = "done"
    /\ Len(groups) = 3
    /\ \A g \in 1..3 : Cardinality(groups[g].target_qubits) = 2

\* In every group built by from_terms member 0 has the largest arity, its qubits
\* are the group's support, and each member's qubits meet the precondition of a
\* merge into a term on member 0's qubits.
SeedDominatesGroup ==
    \A g \in 1..Len(groups) :
        /\ groups[g].target_qubits = Support(groups[g].members[1])
        /\ \A k \in 1..Len(groups[g].members) :
            /\ Len(terms[groups[g].members[k]]) <= Len(terms[groups[g].members[1]])
            /\ Support(groups[g].members[k]) \subseteq Support(groups[g].members[1])
            /\ IsPermutation(MergeOrder(terms[groups[g].members[1]],
                                        terms[groups[g].members[k]]))

----------------------------------------------------------------------------
(* One TermGroup object: append, to_term and the cached property term.  The   *)
(* members are references into the heap.                                      *)

\* the most members the group gets
MaxMembers == 3

\* what to_term hands back: the heap after the reads it made, the exception
\* raised (if any), the merged term and its place in the heap when it is one of
\* the members themselves (ref, else 0)
Folded(h, exc, term, ref) == [heap |-> h, exc |-> exc, term |-> term, ref |-> ref]

\* merged.merge(term * c), the scaled term being a new object
MergeScaled(h, merged, mergedRef, arg) ==
    IF arg.exc # "" THEN [heap |-> h, exc |-> arg.exc, term |-> NoTerm]
    ELSE MergeObjects(h, merged, mergedRef, arg.term, 0)

\* lines 232-233: merged.merge(term * c if c is not None else term), term = h[r]
MergeMember(h, merged, mergedRef, r, coefficients) ==
    IF h[r].hamiltonian \in DOMAIN coefficients
    THEN MergeScaled(h, merged, mergedRef, mul(h[r], coefficients[h[r].hamiltonian]))
    ELSE MergeObjects(h, merged, mergedRef, h[r], r)

RECURSIVE ToTermLoop(_, _, _, _, _)

\* the fold goes on from the merge m with the members rest
ToTermNext(m, rest, coefficients) ==
    IF m.exc # "" THEN Folded(m.heap, m.exc, NoTerm, 0)
    ELSE ToTermLoop(m.heap, m.term, 0, rest, coefficients)

\* lines 231-233 of to_term: the fold over the members after the first.  merged
\* is the term folded so far, mergedRef its place in the heap (0: not kept)
ToTermLoop(h, merged, mergedRef, rest, coefficients) ==
    IF rest = <<>> THEN Folded(h, "", merged, mergedRef)
    ELSE ToTermNext(MergeMember(h, merged, mergedRef, Head(rest), coefficients),
                    Tail(rest), coefficients)

\* the fold starts from start, which is member 0 itself (ref) or a scaled copy
ToTermStart(h, start, ref, rest, coefficients) ==
    IF start.exc # "" THEN Folded(h, start.exc, NoTerm, 0)
    ELSE ToTermLoop(h, start.term, ref, rest, coefficients)

\* g.to_term(coefficients); self[0] raises IndexError on a group without members
to_term(h, g, coefficients) ==
    IF g.members = <<>> THEN Folded(h, "IndexError", NoTerm, 0)
    ELSE IF h[g.members[1]].hamiltonian \in DOMAIN coefficients
    THEN ToTermStart(h, mul(h[g.members[1]], coefficients[h[g.members[1]].hamiltonian]),
                     0, Tail(g.members), coefficients)
    ELSE ToTermStart(h, Return(h[g.members[1]]), g.members[1], Tail(g.members),
                     coefficients)

\* coefficients={}
NoCoefficients == <<>>

\* the terms a group is built from, at heap[1], heap[2], ...
GroupBare ==
    <<HTerm(<<0, 1>>, 100), HTerm(<<1>>, 0), HTerm(<<1, 0>>, 20),
      STerm(<<2, 0>>, {0}, 0), HTerm(<<2>>, 50)>>

\* the aggregate each term belongs to (term.hamiltonian, set by its owner; 0: None)
GroupOwners == <<1, 1, 2, 2, 0>>

GroupTerms == [r \in 1..Len(GroupBare) |-> [GroupBare[r] EXCEPT !.hamiltonian = GroupOwners[r]]]

\* the coefficients maps to_term is called with: {}, {1: 3}, {2: 0} and
\* {1: 0, 2: 3}
CoefficientMaps ==
    {NoCoefficients, [h \in {1} |-> <<3, 0>>], [h \in {2} |-> <<0, 0>>],
     [h \in {1, 2} |-> IF h = 1 THEN <<0, 0>> ELSE <<3, 0>>]}

InitGroup ==
    /\ heap = GroupTerms
    /\ gates = <<>>
    /\ symdm = {}
    /\ ret = NoRet
    /\ group \in {TermGroupInit(r, GroupTerms[r].target_qubits) : r \in 1..Len(GroupTerms)}
    /\ lastCoefficients = NoCoefficients
    /\ FromIdle
    /\ ParseIdle

\* group.append(heap[r]), called directly
AppendStep ==
    \E r \in 1..Len(GroupTerms) :
        /\ Len(group.members) < MaxMembers
        /\ group' = append(group, r, heap[r].target_qubits)
        /\ ret' = MkRet("append", "", 0, r, CZero, FALSE, None, <<>>)
        /\ UNCHANGED <<heap, gates, symdm, lastCoefficients, fromVars, parseVars>>

\* whether reading group.term has to call to_term (line 224)
TermMissing(g) == g._term = 0

\* the heap once the merged term res of to_term is kept
KeptHeap(res) ==
    IF res.exc = "" /\ res.ref = 0 THEN Append(res.heap, res.term) ELSE res.heap

\* the place in the heap of the merged term res of to_term
KeptRef(res) == IF res.ref = 0 THEN Len(res.heap) + 1 ELSE res.ref

\* lines 224-226, to_term having handed back res
TermCompute(res) ==
    /\ heap' = KeptHeap(res)
    /\ group' = IF res.exc = "" THEN [group EXCEPT !._term = KeptRef(res)] ELSE group
    /\ ret' = MkRet("term", res.exc, IF res.exc = "" THEN KeptRef(res) ELSE 0,
                    0, CZero, FALSE, None, <<>>)

\* reading group.term
TermRead ==
    IF TermMissing(group) THEN TermCompute(to_term(heap, group, NoCoefficients))
    ELSE /\ ret' = MkRet("term", "", group._term, 0, CZero, FALSE, None, <<>>)
         /\ UNCHANGED <<heap, group>>

TermReadStep == TermRead /\ UNCHANGED <<gates, symdm, lastCoefficients, fromVars, parseVars>>

\* group.to_term(coefficients), to_term having handed back res: the term
\* returned is one of the members (ref) or a new object, which the caller is
\* handed (val) and the group does not keep
ToTermDone(res, coefficients) ==
    /\ heap' = res.heap
    /\ ret' = MkRet("to_term", res.exc, IF res.exc = "" THEN res.ref ELSE 0, 0, CZero, FALSE,
                    IF res.exc = "" THEN res.term ELSE None, <<>>)
    /\ lastCoefficients' = coefficients

\* group.to_term(coefficients)
ToTermStep ==
    \E coefficients \in CoefficientMaps :
        /\ ToTermDone(to_term(heap, group, coefficients), coefficients)
        /\ UNCHANGED <<group, gates, symdm, fromVars, parseVars>>

\* the read of .matrix of the term the last to_term returned (a member, or the
\* new object the caller was handed), which a SymbolicTerm caches
ReturnedMatrixStep ==
    LET returned == IF ret.ref # 0 THEN heap[ret.ref] ELSE ret.val
    IN /\ ret.op = "to_term" /\ ret.exc = ""
       /\ heap' = Stored(heap, ret.ref, Materialized(returned))
       /\ ret' = MkRet("to_term_matrix", "", ret.ref, 0, CZero, FALSE,
                       MatrixValue(returned), <<>>)
       /\ UNCHANGED <<gates, symdm, groupVars, fromVars, parseVars>>

NextGroup == AppendStep \/ TermReadStep \/ ToTermStep \/ ReturnedMatrixStep

SpecGroup == InitGroup /\ [][NextGroup]_vars

----------------------------------------------------------------------------
(* The methods TermGroup inherits from list (class TermGroup(list)): they     *)
(* change the members and leave target_qubits and _term as they are.  SpecList *)
(* is a group changed through these methods only, with reads of term and calls *)
(* of to_term in between.                                                      *)

\* the terms the list methods are handed: heap[2] on (1,) and heap[5] on (2,)
ListArguments == {2, 5}

\* the indices the list methods are called with
ListIndices == {-1, 0}

\* the factors of group *= n
Repeats == {0, 2}

\* a Python index on a list of n items: a negative index counts from the end
Norm(index, n) == IF index < 0 THEN index + n ELSE index

\* the list s without its item k (0-based)
RemoveAt(s, k) == SubSeq(s, 1, k) \o SubSeq(s, k + 2, Len(s))

\* a list method left the members ms and returned or raised
ListDone(op, exc, ms, src, index) ==
    /\ group' = [group EXCEPT !.members = ms]
    /\ ret' = MkRet(op, exc, 0, src, CZero, FALSE, None, <<>>)
    /\ UNCHANGED <<heap, gates, symdm, lastCoefficients, fromVars, parseVars>>

\* group.extend([heap[r]]) and group += [heap[r]]
ExtendStep ==
    \E r \in ListArguments :
        /\ Len(group.members) < MaxMembers
        /\ ListDone("extend", "", Append(group.members, r), r, 0)

\* group.insert(index, heap[r]): heap[r] is put before the item at index, an
\* index outside the list being taken for its nearer end
InsertStep ==
    \E r \in ListArguments : \E index \in ListIndices :
        LET n == Len(group.members)
            k == IF Norm(index, n) < 0 THEN 0
                 ELSE IF Norm(index, n) > n THEN n
                 ELSE Norm(index, n)
        IN /\ n < MaxMembers
           /\ ListDone("insert", "",
                       SubSeq(group.members, 1, k) \o <<r>> \o SubSeq(group.members, k + 1, n),
                       r, index)

\* group.pop(index); group.pop() is group.pop(-1)
PopStep ==
    \E index \in ListIndices :
        IF Norm(index, Len(group.members)) \in 0..(Len(group.members) - 1)
        THEN ListDone("pop", "", RemoveAt(group.members, Norm(index, Len(group.members))),
                      group.members[Norm(index, Len(group.members)) + 1], index)
        ELSE ListDone("pop", "IndexError", group.members, 0, index)

\* group.remove(heap[r]): terms compare by identity
RemoveStep ==
    \E r \in ListArguments :
        IF r \in Range(group.members)
        THEN ListDone("remove", "", RemoveAt(group.members, TupleIndex(group.members, r)), r, 0)
        ELSE ListDone("remove", "ValueError", group.members, r, 0)

\* group[index] = heap[r]
SetItemStep ==
    \E r \in ListArguments : \E index \in ListIndices :
        IF Norm(index, Len(group.members)) \in 0..(Len(group.members) - 1)
        THEN ListDone("setitem", "",
                      [group.members EXCEPT ![Norm(index, Len(group.members)) + 1] = r],
                      r, index)
        ELSE ListDone("setitem", "IndexError", group.members, r, index)

\* del group[index]
DelItemStep ==
    \E index \in ListIndices :
        IF Norm(index, Len(group.members)) \in 0..(Len(group.members) - 1)
        THEN ListDone("delitem", "", RemoveAt(group.members, Norm(index, Len(group.members))),
                      0, index)
        ELSE ListDone("delitem", "IndexError", group.members, 0, index)

\* group.sort(): terms have no order, so the first comparison raises TypeError
\* and the list stays as it was; fewer than two members are not compared
ListSortStep ==
    ListDone("sort", IF Len(group.members) >= 2 THEN "TypeError" ELSE "", group.members, 0, 0)

\* group.reverse()
ReverseStep ==
    ListDone("reverse", "",
             [k \in 1..Len(group.members) |-> group.members[Len(group.members) + 1 - k]], 0, 0)

\* group.clear()
ClearStep == ListDone("clear", "", <<>>, 0, 0)

\* group *= n
ImulStep ==
    \E n \in Repeats :
        /\ Len(group.members) * n <= MaxMembers
        /\ ListDone("imul", "",
                    [k \in 1..(Len(group.members) * n) |->
                        group.members[((k - 1) % Len(group.members)) + 1]], 0, n)

NextList ==
    TermReadStep \/ ToTermStep \/ ReturnedMatrixStep \/ ExtendStep \/ InsertStep \/ PopStep
        \/ RemoveStep \/ SetItemStep \/ DelItemStep \/ ListSortStep \/ ReverseStep
        \/ ClearStep \/ ImulStep

SpecList == InitGroup /\ [][NextList]_vars

\* the operations inherited from list
ListOps ==
    {"extend", "insert", "pop", "remove", "setitem", "delitem", "sort", "reverse", "clear",
     "imul"}

\* An inherited list method changes neither target_qubits nor the cached merged
\* term, whatever it does to the members.
ListMethodsKeepSupportAndCache ==
    [][ret'.op \in ListOps =>
            /\ group'.target_qubits = group.target_qubits
            /\ group'._term = group._term
            /\ heap' = heap]_vars

\* The group seeded on (0, 1) took the term on (1,), its merged term was read and
\* the term on (2,) was added by extend: three members, the support and the
\* cached merged term of the first two.
StaleAfterExtend ==
    /\ ret.op = "extend"
    /\ group.members = <<1, 2, 5>>
    /\ group.target_qubits = {0, 1}
    /\ group._term = Len(GroupTerms) + 1

----------------------------------------------------------------------------
(* Claims about the cached merged term. *)

\* C8: the cached merged term is to_term() of the group's current members; an
\* append resets the cache, and a read that finds the cache filled returns the
\* cached object itself and changes nothing.
C8_TermCache ==
    /\ [](group._term # 0 =>
            LET now == to_term(heap, group, NoCoefficients)
            IN /\ now.exc = ""
               /\ MatrixValue(heap[group._term]) = MatrixValue(now.term)
               /\ heap[group._term].target_qubits = now.term.target_qubits)
    /\ [][/\ group'.members # group.members => group'._term = 0
          /\ (group._term # 0 /\ ret'.op = "term") =>
                (ret'.ref = group._term /\ ret'.exc = "" /\ group' = group /\ heap' = heap)
          /\ (ret'.op = "term" /\ ret'.exc = "") => ret'.ref = group'._term]_vars

\* C8 witness: term was read, a term was appended, and term was read again: the
\* heap holds the earlier merged term and the cache the later one.
C8_Witness ==
    /\ ret.op = "term" /\ ret.exc = ""
    /\ Len(group.members) = 3
    /\ group._term = Len(GroupTerms) + 2

----------------------------------------------------------------------------
(* Construction: HamiltonianTerm(matrix, *q), SymbolicTerm(...) and          *)
(* SymbolicTerm.from_factors, followed by scalings of what was built.         *)
(*                                                                         *)
(* A factor of the product handed to from_factors is a record: kind says   *)
(* what the (base) object is -- "Symbol" a symbol carrying target_qubit and *)
(* matrix, "PlainSymbol" a sympy.Symbol without them, "I" the imaginary     *)
(* unit, "Number" a numeric literal, "Add" a sum -- and isPow whether the   *)
(* factor is a sympy.Pow of that base, with exponent pow when powInt says   *)
(* the exponent is a sympy.Integer.                                         *)

\* the longest product from_factors is given
MaxFactors == 3

Factor(kind, name, q, matrix) ==
    [kind |-> kind, name |-> name, target_qubit |-> q, matrix |-> matrix,
     isPow |-> FALSE, pow |-> 1, powInt |-> TRUE]

\* base ** n, n an integer
Power(base, n) == [base EXCEPT !.isPow = TRUE, !.pow = n]

\* base ** e, e not an integer
PowerNonInteger(base) == [base EXCEPT !.isPow = TRUE, !.pow = 0, !.powInt = FALSE]

\* pow * [x]
Times(pow, x) == [i \in 1..pow |-> x]

\* lines 131-134: the matrices ms go to the end of _matrix_map[q]
Extended(matrix_map, q, ms) ==
    IF q \in DOMAIN matrix_map THEN [matrix_map EXCEPT ![q] = @ \o ms]
    ELSE [k \in (DOMAIN matrix_map) \cup {q} |-> IF k = q THEN ms ELSE matrix_map[k]]

\* whether isinstance(factor, sympy.Symbol)
IsSympySymbol(f) == f.kind \in {"Symbol", "PlainSymbol"}

\* lines 122-125: a symbol found in symbol_map (None is the empty map here) is
\* replaced by Symbol(q, matrix, name=factor.name)
FromSymbolMap(symbol_map, f) ==
    IF IsSympySymbol(f) /\ f.name \in DOMAIN symbol_map
    THEN [f EXCEPT !.kind = "Symbol",
                   !.target_qubit = symbol_map[f.name].q,
                   !.matrix = symbol_map[f.name].matrix]
    ELSE f

\* whether isinstance(factor.matrix, K.qnp.tensor_types)
IsTensor(matrix) == matrix.nd = 2

\* a parse in which a scalar-valued symbol is kept as a factor on its qubit
AbsorbKeepsScalars(p, f, pow) ==
    IF f.kind = "Symbol"
    THEN [p EXCEPT !._factors = @ \o Times(pow, Symbol(f.name, f.target_qubit, f.matrix)),
                   !._matrix_map = Extended(@, f.target_qubit, Times(pow, f.matrix))]
    ELSE IF f.kind = "PlainSymbol" THEN [p EXCEPT !.exc = "AttributeError"]
    ELSE IF f.kind = "I" THEN [p EXCEPT !.coefficient = CMul(@, <<0, 1>>)]
    ELSE [p EXCEPT !.exc = "TypeError"]

\* a parse that puts the matrices of a factor in front of those already on its qubit
AbsorbPrepends(p, f, pow) ==
    IF f.kind = "Symbol"
    THEN IF IsTensor(f.matrix)
         THEN [p EXCEPT !._factors = @ \o Times(pow, Symbol(f.name, f.target_qubit, f.matrix)),
                        !._matrix_map =
                            IF f.target_qubit \in DOMAIN @
                            THEN [@ EXCEPT ![f.target_qubit] = Times(pow, f.matrix) \o @]
                            ELSE Extended(@, f.target_qubit, Times(pow, f.matrix))]
         ELSE [p EXCEPT !.coefficient = CMul(@, f.matrix.rows[1][1])]
    ELSE IF f.kind = "PlainSymbol" THEN [p EXCEPT !.exc = "AttributeError"]
    ELSE IF f.kind = "I" THEN [p EXCEPT !.coefficient = CMul(@, <<0, 1>>)]
    ELSE [p EXCEPT !.exc = "TypeError"]

\* lines 127-140: the locals p of from_factors after the factor f, taken pow times
Absorb(p, f, pow) ==
    IF f.kind = "Symbol"
    THEN IF IsTensor(f.matrix)
         THEN [p EXCEPT !._factors = @ \o Times(pow, Symbol(f.name, f.target_qubit, f.matrix)),
                        !._matrix_map = Extended(@, f.target_qubit, Times(pow, f.matrix))]
         ELSE [p EXCEPT !.coefficient = CMul(@, f.matrix.rows[1][1])]
    ELSE IF f.kind = "PlainSymbol" THEN [p EXCEPT !.exc = "AttributeError"]
    ELSE IF f.kind = "I" THEN [p EXCEPT !.coefficient = CMul(@, <<0, 1>>)]
    ELSE [p EXCEPT !.exc = "TypeError"]

\* lines 114-140: one iteration of the loop over the ordered factors
Iteration(p, f) ==
    IF f.isPow /\ ~f.powInt THEN [p EXCEPT !.exc = "AssertionError"]
    ELSE IF f.isPow /\ ~IsSympySymbol(f) THEN [p EXCEPT !.exc = "AssertionError"]
    ELSE Absorb(p, FromSymbolMap(p.symbol_map, f), IF f.isPow THEN f.pow ELSE 1)

\* lines 108-109 and 142: the term from_factors returns
FromFactorsResult(p) ==
    IF p.one THEN SymbolicTermInit(p.coefficient, <<>>, <<>>)
    ELSE SymbolicTermInit(p.coefficient, p._factors, p._matrix_map)

\* the factors the products are made of: X(0), Z(0), Y(1), X(0)**2, X(0)**-1,
\* the scalar-valued symbol a (value 3) and a**2, the imaginary unit, the literal
\* 2, the plain symbol p, X(0)**(1/2) and (X(0) + 1)**2
FactorPalette ==
    {Factor("Symbol", "X", 0, PauliX), Factor("Symbol", "Z", 0, PauliZ),
     Factor("Symbol", "Y", 1, PauliY),
     Power(Factor("Symbol", "X", 0, PauliX), 2),
     Power(Factor("Symbol", "X", 0, PauliX), -1),
     Factor("Symbol", "a", 0, Scalar(<<3, 0>>)),
     Power(Factor("Symbol", "a", 0, Scalar(<<3, 0>>)), 2),
     Factor("I", "I", 0, None), Factor("Number", "2", 0, Scalar(<<2, 0>>)),
     Factor("PlainSymbol", "p", 0, None),
     PowerNonInteger(Factor("Symbol", "X", 0, PauliX)),
     Power(Factor("Add", "X + 1", 0, None), 2)}

\* symbol_map=None, and a symbol_map that gives the plain symbol p the matrix Y
\* on qubit 1
SymbolMaps == {<<>>, [n \in {"p"} |-> [q |-> 1, matrix |-> PauliY]]}

\* an object that is neither None, nor a number, nor a tensor (a str, a list)
Untyped == [nd |-> 1, rows |-> <<>>]

\* the calls HamiltonianTerm(matrix, *q) of this specification
HamiltonianTermCalls ==
    {[NoParse EXCEPT !.call = "HamiltonianTerm", !.matrix = m, !.q = q, !.pc = "call"] :
        m \in {None, Scalar(<<2, 0>>), Untyped}, q \in {<<>>, <<0>>, <<1, 0>>}}
    \cup {[NoParse EXCEPT !.call = "HamiltonianTerm", !.matrix = Generic(Len(q), 0),
                          !.q = q, !.pc = "call"] : q \in {<<>>, <<0>>, <<1, 0>>}}

\* the calls SymbolicTerm(coefficient, factors, matrix_map) of this specification
SymbolicTermCalls ==
    {[NoParse EXCEPT !.call = "SymbolicTerm", !.given = c, !.coefficient = c,
                     !._factors = f, !._matrix_map = FactorsMap(g), !.pc = "call"] :
        c \in Coefficients, f \in FactorLists, g \in FactorLists}

\* the calls SymbolicTerm.from_factors(coefficient, factors, symbol_map): factors
\* is the number 1 (one) or a product given by its ordered factors
FromFactorsCalls ==
    {[NoParse EXCEPT !.call = "from_factors", !.given = c, !.coefficient = c,
                     !.one = TRUE, !.symbol_map = sm, !.pc = "loop"] :
        c \in Coefficients, sm \in SymbolMaps}
    \cup {[NoParse EXCEPT !.call = "from_factors", !.given = <<2, 0>>,
                          !.coefficient = <<2, 0>>, !.factors = fs, !.symbol_map = sm,
                          !.pos = 1, !.pc = "loop"] :
            fs \in UNION {[1..n -> FactorPalette] : n \in 1..MaxFactors},
            sm \in SymbolMaps}

InitBuild ==
    /\ parse \in HamiltonianTermCalls \cup SymbolicTermCalls \cup FromFactorsCalls
    /\ TermsIdle
    /\ FromIdle
    /\ GroupIdle

\* the constructor call returns the object res.term or raises res.exc
Constructed(res) ==
    /\ heap' = IF res.exc = "" THEN Append(heap, res.term) ELSE heap
    /\ ret' = MkRet(parse.call, res.exc, IF res.exc = "" THEN Len(heap) + 1 ELSE 0,
                    0, parse.given, FALSE, None, <<>>)
    /\ parse' = [parse EXCEPT !.pc = "done", !.exc = res.exc]
    /\ UNCHANGED <<gates, symdm, fromVars, groupVars>>

\* HamiltonianTerm(matrix, *q)
NewHamiltonianTermStep ==
    /\ parse.pc = "call" /\ parse.call = "HamiltonianTerm"
    /\ Constructed(HamiltonianTermInit(parse.matrix, parse.q))

\* SymbolicTerm(coefficient, factors, matrix_map)
NewSymbolicTermStep ==
    /\ parse.pc = "call" /\ parse.call = "SymbolicTerm"
    /\ Constructed(Return(SymbolicTermInit(parse.coefficient, parse._factors,
                                           parse._matrix_map)))

\* the locals p after an iteration: the loop goes on, or the exception leaves it
Iterated(p) ==
    /\ parse' = IF p.exc = "" THEN [p EXCEPT !.pos = @ + 1] ELSE [p EXCEPT !.pc = "done"]
    /\ ret' = IF p.exc = "" THEN ret
              ELSE MkRet("from_factors", p.exc, 0, p.pos, p.given, FALSE, None, <<>>)
    /\ UNCHANGED <<heap, gates, symdm, fromVars, groupVars>>

\* one iteration of the loop of lines 113-140
FactorStep ==
    /\ parse.pc = "loop" /\ ~parse.one /\ parse.pos <= Len(parse.factors)
    /\ Iterated(Iteration(parse, parse.factors[parse.pos]))

\* lines 108-109 and line 142
FromFactorsReturnStep ==
    /\ parse.pc = "loop" /\ (parse.one \/ parse.pos > Len(parse.factors))
    /\ Constructed(Return(FromFactorsResult(parse)))

NextBuild ==
    NewHamiltonianTermStep \/ NewSymbolicTermStep \/ FactorStep
        \/ FromFactorsReturnStep \/ MulStep \/ MatrixReadStep

SpecBuild == InitBuild /\ [][NextBuild]_vars

----------------------------------------------------------------------------
(* Claims about construction and from_factors. *)

FromFactorsDone == parse.call = "from_factors" /\ parse.pc = "done"

\* the term from_factors returned
Parsed == heap[1]

\* whether the factor f stands for an operator (tensor-valued) symbol under sm
IsOperator(f, sm) ==
    /\ FromSymbolMap(sm, f).kind = "Symbol"
    /\ FromSymbolMap(sm, f).matrix.nd = 2

\* whether the factor f stands for a scalar-valued symbol under sm
IsScalarSymbol(f, sm) ==
    /\ FromSymbolMap(sm, f).kind = "Symbol"
    /\ FromSymbolMap(sm, f).matrix.nd = 0

\* the exponent of a factor, 1 when it is not a power
Exponent(f) == IF f.isPow THEN f.pow ELSE 1

\* the operator symbols of the product fs, left to right, a power n as n copies
RECURSIVE OperatorOccurrences(_, _)
OperatorOccurrences(fs, sm) ==
    IF fs = <<>> THEN <<>>
    ELSE (IF IsOperator(Head(fs), sm)
          THEN [i \in 1..Exponent(Head(fs)) |->
                    Symbol(FromSymbolMap(sm, Head(fs)).name,
                           FromSymbolMap(sm, Head(fs)).target_qubit,
                           FromSymbolMap(sm, Head(fs)).matrix)]
          ELSE <<>>) \o OperatorOccurrences(Tail(fs), sm)

\* the matrices of the occurrences occ that act on qubit q, in their order
RECURSIVE OccurrencesOn(_, _)
OccurrencesOn(occ, q) ==
    IF occ = <<>> THEN <<>>
    ELSE (IF Head(occ).target_qubit = q THEN <<Head(occ).matrix>> ELSE <<>>)
            \o OccurrencesOn(Tail(occ), q)

\* C11: for every product parsed by from_factors and every qubit q,
\* matrix_map[q] holds the matrices of the operator factors on q in textual
\* order and with multiplicity (a power n as n consecutive copies), q is a key
\* exactly when a factor acts on it, and nothing is deduplicated: X(0) twice
\* gives the per-qubit product X @ X = I.
C11_RepeatedFactors ==
    (FromFactorsDone /\ parse.exc = "" /\ ~parse.one) =>
        \A q \in Qubits :
            LET on == OccurrencesOn(OperatorOccurrences(parse.factors, parse.symbol_map), q)
            IN /\ on # <<>> => q \in DOMAIN Parsed.matrix_map
               /\ q \in DOMAIN Parsed.matrix_map => Parsed.matrix_map[q] = on
               /\ on = <<PauliX, PauliX>> => matrices_product(Parsed.matrix_map[q]) = Eye(2)

\* C11 witness: Z(0) * X(0)**2 * Y(1) was parsed and qubit 0 holds Z, X, X.
C11_Witness ==
    /\ ret.op = "from_factors" /\ ret.exc = ""
    /\ DOMAIN Parsed.matrix_map = {0, 1}
    /\ Parsed.matrix_map[0] = <<PauliZ, PauliX, PauliX>>
    /\ Parsed.matrix_map[1] = <<PauliY>>
    /\ parse.factors[2].isPow

RECURSIVE CPow(_, _)
CPow(v, n) == IF n <= 0 THEN COne ELSE CMul(CPow(v, n - 1), v)

\* the coefficient c times the value of every scalar symbol of fs, a power n as
\* n occurrences, and times i for every imaginary unit
RECURSIVE ExpectedCoefficient(_, _, _)
ExpectedCoefficient(fs, sm, c) ==
    IF fs = <<>> THEN c
    ELSE ExpectedCoefficient(Tail(fs), sm,
            IF IsScalarSymbol(Head(fs), sm)
            THEN CMul(c, CPow(FromSymbolMap(sm, Head(fs)).matrix.rows[1][1],
                              Exponent(Head(fs))))
            ELSE IF Head(fs).kind = "I" THEN CMul(c, <<0, 1>>)
            ELSE c)

\* C12: a factor with integer exponent n counts as n repetitions whatever its
\* kind: an operator symbol gives n entries in factors, and a scalar symbol of
\* value v multiplies the coefficient by v^n.
C12_PowerIsRepetition ==
    (FromFactorsDone /\ parse.exc = "" /\ ~parse.one) =>
        /\ Parsed.factors = OperatorOccurrences(parse.factors, parse.symbol_map)
        /\ Parsed.coefficient
            = ExpectedCoefficient(parse.factors, parse.symbol_map, parse.given)

\* whether from_factors has no rule for the factor f: not a symbol with a
\* matrix (given or through symbol_map), possibly to an integer power, and not
\* the imaginary unit
Unparseable(f, sm) ==
    \/ f.isPow /\ ~f.powInt
    \/ f.isPow /\ ~IsSympySymbol(f)
    \/ f.kind \in {"Number", "Add"}
    \/ f.kind = "PlainSymbol" /\ f.name \notin DOMAIN sm

\* the position of the first factor of the product that has no rule
FirstUnparseable ==
    CHOOSE i \in 1..Len(parse.factors) :
        /\ Unparseable(parse.factors[i], parse.symbol_map)
        /\ \A j \in 1..(i - 1) : ~Unparseable(parse.factors[j], parse.symbol_map)

\* C16: a product with a factor that is neither a (possibly integer-powered)
\* symbol with a matrix nor the imaginary unit makes from_factors raise a
\* TypeError for that factor, and no term is returned.
C16_BadFactorTypeError ==
    (parse.call = "from_factors" /\ parse.pc = "done"
        /\ \E i \in 1..Len(parse.factors) :
                Unparseable(parse.factors[i], parse.symbol_map)) =>
        /\ ret.exc = "TypeError"
        /\ ret.src = FirstUnparseable
        /\ heap = <<>>

\* Whatever the exception, such a product yields no term, and a numeric literal
\* or a sum that is not under a power is reported by a TypeError.
BadFactorNeverParsed ==
    (parse.call = "from_factors" /\ parse.pc = "done"
        /\ \E i \in 1..Len(parse.factors) :
                Unparseable(parse.factors[i], parse.symbol_map)) =>
        /\ ret.exc # "" /\ heap = <<>>
        /\ ret.src = FirstUnparseable
        /\ ~parse.factors[FirstUnparseable].isPow
                /\ parse.factors[FirstUnparseable].kind \in {"Number", "Add"}
            => ret.exc = "TypeError"

\* C17: HamiltonianTerm(matrix, *q) raises TypeError and builds no term exactly
\* when matrix is neither None, nor a numeric scalar, nor a tensor; otherwise the
\* term holds the matrix and the qubits as given.
C17_MatrixTypeChecked ==
    (parse.call = "HamiltonianTerm" /\ parse.pc = "done") =>
        IF parse.matrix.nd \in {-1, 0, 2}
        THEN /\ parse.exc = ""
             /\ heap[1].cls = "HamiltonianTerm"
             /\ heap[1]._matrix = parse.matrix
             /\ heap[1].target_qubits = parse.q
        ELSE parse.exc = "TypeError" /\ heap = <<>>

\* C17 witness: the constructor was given an object of another type and raised.
C17_Witness ==
    /\ ret.op = "HamiltonianTerm" /\ ret.exc = "TypeError"
    /\ parse.matrix = Untyped
    /\ heap = <<>>

\* C17 as stated: construction succeeds only for a numeric scalar or a tensor.
C17_OnlyScalarOrTensor ==
    (parse.call = "HamiltonianTerm" /\ parse.pc = "done" /\ parse.exc = "") =>
        parse.matrix.nd \in {0, 2}

\* whether the tuple s is strictly ascending
Ascending(s) == \A i, j \in 1..Len(s) : i < j => s[i] < s[j]

\* C20: every SymbolicTerm built by the constructor or by from_factors, and
\* every term scaled from it, has for target_qubits the keys of matrix_map in
\* ascending order; after from_factors the keys are the qubits of the operator
\* factors and factors holds the operator factors only: scalar symbols and the
\* imaginary unit add neither.
C20_QubitsAreSortedKeys ==
    \A i \in 1..Len(heap) :
        heap[i].cls = "SymbolicTerm" =>
            /\ Ascending(heap[i].target_qubits)
            /\ Range(heap[i].target_qubits) = DOMAIN heap[i].matrix_map
            /\ (parse.call = "from_factors" /\ ~parse.one) =>
                /\ DOMAIN heap[i].matrix_map
                    = {FromSymbolMap(parse.symbol_map, parse.factors[k]).target_qubit :
                        k \in {k \in 1..Len(parse.factors) :
                                IsOperator(parse.factors[k], parse.symbol_map)}}
                /\ heap[i].factors = OperatorOccurrences(parse.factors, parse.symbol_map)
            /\ (parse.call = "from_factors" /\ parse.one) =>
                heap[i].target_qubits = <<>> /\ heap[i].factors = <<>>

\* C20 witness: Y(1) * a * X(0), a scalar-valued, was parsed and the term scaled.
C20_Witness ==
    /\ ret.op = "mul" /\ parse.call = "from_factors"
    /\ Len(parse.factors) = 3
    /\ parse.factors[2].name = "a"
    /\ heap[ret.ref].target_qubits = <<0, 1>>
    /\ Len(heap[ret.ref].factors) = 2

\* the matrix a member stands for, whatever is cached
TrueMatrix(t) == IF t.cls = "SymbolicTerm" THEN ExpectedMatrix(t) ELSE t._matrix

\* member r scaled by its owner's entry in lastCoefficients, if there is one
ScaledMember(r) ==
    IF GroupTerms[r].hamiltonian \in DOMAIN lastCoefficients
    THEN Scale(lastCoefficients[GroupTerms[r].hamiltonian], TrueMatrix(GroupTerms[r]))
    ELSE TrueMatrix(GroupTerms[r])

\* the matrix of member0' .merge(member1') ... .merge(member(n-1)')
RECURSIVE ExpectedFold(_, _)
ExpectedFold(members, n) ==
    IF n = 1 THEN ScaledMember(members[1])
    ELSE Add(ExpectedFold(members, n - 1),
             Embed(ScaledMember(members[n]), GroupTerms[members[n]].target_qubits,
                   GroupTerms[members[1]].target_qubits))

\* C13: to_term(coefficients) returns the left-to-right fold of the members,
\* each scaled by coefficients[member.hamiltonian] when that key is present (0
\* included), whatever was read or merged before.
C13_ToTermOverrides ==
    (ret.op = "to_term_matrix" /\ ret.exc = "") =>
        ret.val = ExpectedFold(group.members, Len(group.members))

\* The same for a group in which no SymbolicTerm is scaled.
ToTermFoldsUnscaledSymbolic ==
    (ret.op = "to_term_matrix" /\ ret.exc = ""
        /\ \A k \in 1..Len(group.members) :
                GroupTerms[group.members[k]].cls = "SymbolicTerm" =>
                    GroupTerms[group.members[k]].hamiltonian \notin DOMAIN lastCoefficients) =>
        ret.val = ExpectedFold(group.members, Len(group.members))

\* A group of one SymbolicTerm whose matrix nobody has read: to_term() and then
\* to_term({2: 0}).matrix gives the zero matrix, the override applied.
FreshOverrideApplied ==
    /\ ret.op = "to_term_matrix"
    /\ group.members = <<4>>
    /\ heap[4]._matrix = None
    /\ lastCoefficients = [h \in {2} |-> <<0, 0>>]
    /\ ret.val = Scale(CZero, ExpectedMatrix(heap[4]))

\* The same group after to_term().matrix, which cached the member's matrix:
\* to_term({2: 0}).matrix gives the member's matrix unscaled.
StaleOverride ==
    /\ ret.op = "to_term_matrix"
    /\ group.members = <<4>>
    /\ lastCoefficients = [h \in {2} |-> <<0, 0>>]
    /\ ret.val = ExpectedMatrix(heap[4])

\* C19: append called directly tests nothing and raises nothing: the term becomes
\* the last member, target_qubits the union of the old support and the term's
\* qubits (unchanged when can_append holds), and the cached merged term is
\* cleared.
C19_AppendUnchecked ==
    [][(ret'.op = "append" /\ <<group', ret'>> # <<group, ret>>) =>
            /\ ret'.exc = ""
            /\ group'.members = Append(group.members, ret'.src)
            /\ group'.target_qubits
                = group.target_qubits \cup Range(heap[ret'.src].target_qubits)
            /\ Range(heap[ret'.src].target_qubits) \subseteq group.target_qubits
                    => group'.target_qubits = group.target_qubits
            /\ group'._term = 0
            /\ heap' = heap]_vars

\* C19 witness: the merged term of a group on qubits 0 and 1 was computed, and
\* then the term on qubit 2 was appended: the support grew and the cache is empty.
C19_Witness ==
    /\ ret.op = "append"
    /\ group.members = <<1, 2, 5>>
    /\ group.target_qubits = {0, 1, 2}
    /\ group._term = 0
    /\ Len(heap) = Len(GroupTerms) + 1

\* C22: over any sequence of appends the support never loses a qubit, the
\* members so far stay a prefix of the members, and target_qubits is the union
\* of the supports of the current members.
C22_GroupOnlyGrows ==
    /\ [](group.target_qubits
            = UNION {Range(heap[group.members[k]].target_qubits) :
                        k \in 1..Len(group.members)})
    /\ [][/\ group.target_qubits \subseteq group'.target_qubits
          /\ Len(group'.members) >= Len(group.members)
          /\ SubSeq(group'.members, 1, Len(group.members)) = group.members]_vars

\* C22 witness: a group seeded on qubit 1 took a term on (0, 1) and then a term
\* on qubit 2.
C22_Witness ==
    /\ group.members = <<2, 1, 5>>
    /\ group.target_qubits = {0, 1, 2}

\* whether the group is one from_terms can return: member 0 has the largest
\* arity and its qubits are the group's support
SeededByLargest ==
    /\ group.target_qubits = Range(heap[group.members[1]].target_qubits)
    /\ \A k \in 1..Len(group.members) :
            Len(heap[group.members[k]].target_qubits)
                <= Len(heap[group.members[1]].target_qubits)

\* C23: in a group as from_terms returns it (member 0 of largest arity, its
\* qubits the group's support) every merge of .term meets merge's precondition
\* and the merged term's target_qubits is member 0's qubit tuple.
C23_MergedOnSeedQubits ==
    (ret.op = "term" /\ SeededByLargest) =>
        /\ ret.exc = ""
        /\ heap[ret.ref].target_qubits = heap[group.members[1]].target_qubits

\* The same for the groups whose member 0 is a HamiltonianTerm.
HamiltonianSeedMergedOnSeedQubits ==
    (ret.op = "term" /\ SeededByLargest
        /\ heap[group.members[1]].cls = "HamiltonianTerm") =>
        /\ ret.exc = ""
        /\ heap[ret.ref].target_qubits = heap[group.members[1]].target_qubits

\* C29: in every SymbolicTerm returned by from_factors each qubit of
\* target_qubits has a non-empty list in matrix_map, for every integer exponent
\* accepted, negative ones included, so that a read of .matrix never fails.
C29_NoEmptyFactorList ==
    /\ \A i \in 1..Len(heap) :
        (parse.call = "from_factors" /\ heap[i].cls = "SymbolicTerm") =>
            \A k \in 1..Len(heap[i].target_qubits) :
                heap[i].matrix_map[heap[i].target_qubits[k]] # <<>>
    /\ (parse.call = "from_factors" /\ ret.op = "matrix") => ret.exc = ""

\* The same for the products in which no exponent is negative.
PositivePowersNoEmptyList ==
    (parse.call = "from_factors"
        /\ \A k \in 1..Len(parse.factors) : Exponent(parse.factors[k]) >= 1) =>
        /\ \A i \in 1..Len(heap) :
            heap[i].cls = "SymbolicTerm" =>
                \A k \in 1..Len(heap[i].target_qubits) :
                    heap[i].matrix_map[heap[i].target_qubits[k]] # <<>>
        /\ ret.op = "matrix" => ret.exc = ""

====
